---- MODULE Spec2Model ----
(***************************************************************************)
(* The restaurant enrichment pipeline of oneminreviews                     *)
(* (scripts/enrich-restaurants.js), the manual ingestion of the scraper    *)
(* (scripts/scrape-tiktok.js) and the text functions they rest on.         *)
(*                                                                         *)
(* Text is a sequence of characters, each character a one-character        *)
(* string, so that the regular expressions of the source are computed      *)
(* character by character.  EmDash stands for the single character U+2014. *)
(***************************************************************************)
EXTENDS Integers, Sequences, FiniteSets, TLC

\* ------------------------------------------------------------------ text

UpperSeq == <<"A", "B", "C", "D", "E", "F", "G", "H", "I", "J", "K", "L", "M", "N", "O", "P", "Q", "R", "S", "T", "U", "V", "W", "X", "Y", "Z">>
LowerSeq == <<"a", "b", "c", "d", "e", "f", "g", "h", "i", "j", "k", "l", "m", "n", "o", "p", "q", "r", "s", "t", "u", "v", "w", "x", "y", "z">>
Upper == {UpperSeq[i] : i \in 1..26}
Lower == {LowerSeq[i] : i \in 1..26}
Digit == {"0", "1", "2", "3", "4", "5", "6", "7", "8", "9"}
EmDash == "U+2014"
\* \s of a JavaScript regular expression, as far as captions use it
Space == {" ", "\n"}
\* \w of a JavaScript regular expression
WordChar == Upper \cup Lower \cup Digit \cup {"_"}

\* String.prototype.toLowerCase, one character
toLowerChar(c) ==
  IF c \in Upper THEN LowerSeq[CHOOSE i \in 1..26 : UpperSeq[i] = c] ELSE c

\* String.prototype.toUpperCase, one character
toUpperChar(c) ==
  IF c \in Lower THEN UpperSeq[CHOOSE i \in 1..26 : LowerSeq[i] = c] ELSE c

toLowerCase(s) == [i \in 1..Len(s) |-> toLowerChar(s[i])]

\* s.slice(from) with a 1-based index
Drop(s, n) == SubSeq(s, n + 1, Len(s))

\* whether text p occurs in s at position i (1-based)
OccursAt(s, i, p) ==
  /\ i >= 1
  /\ i + Len(p) - 1 <= Len(s)
  /\ \A k \in 1..Len(p) : s[i + k - 1] = p[k]

StartsWith(s, p) == OccursAt(s, 1, p)

\* String.prototype.includes
includes(s, p) == \E i \in 1..(Len(s) + 1) : OccursAt(s, i, p)

\* cityPatterns of extractCity, in the order of Object.entries; the alternatives
\* are kept in lower case because every pattern carries the i flag
cityPatterns ==
  <<
    [key |-> <<"N", "e", "w", " ", "Y", "o", "r", "k">>,
     alts |-> <<
        <<"n", "y", "c">>,
        <<"n", "e", "w", " ", "y", "o", "r", "k">>,
        <<"m", "a", "n", "h", "a", "t", "t", "a", "n">>,
        <<"b", "r", "o", "o", "k", "l", "y", "n">>,
        <<"q", "u", "e", "e", "n", "s">>,
        <<"b", "r", "o", "n", "x">>,
        <<"s", "t", "a", "t", "e", "n", " ", "i", "s", "l", "a", "n", "d">> >>],
    [key |-> <<"L", "o", "s", " ", "A", "n", "g", "e", "l", "e", "s">>,
     alts |-> <<
        <<"l", "a">>,
        <<"l", "o", "s", " ", "a", "n", "g", "e", "l", "e", "s">>,
        <<"b", "r", "e", "n", "t", "w", "o", "o", "d">>,
        <<"h", "o", "l", "l", "y", "w", "o", "o", "d">>,
        <<"b", "e", "v", "e", "r", "l", "y", " ", "h", "i", "l", "l", "s">>,
        <<"a", "r", "t", "s", " ", "d", "i", "s", "t", "r", "i", "c", "t">> >>],
    [key |-> <<"C", "h", "i", "c", "a", "g", "o">>,
     alts |-> <<
        <<"c", "h", "i", "c", "a", "g", "o">>,
        <<"w", "i", "c", "k", "e", "r", " ", "p", "a", "r", "k">>,
        <<"l", "i", "n", "c", "o", "l", "n", " ", "p", "a", "r", "k">>,
        <<"r", "i", "v", "e", "r", " ", "n", "o", "r", "t", "h">> >>],
    [key |-> <<"A", "u", "s", "t", "i", "n">>,
     alts |-> <<
        <<"a", "u", "s", "t", "i", "n">> >>],
    [key |-> <<"S", "a", "n", " ", "F", "r", "a", "n", "c", "i", "s", "c", "o">>,
     alts |-> <<
        <<"s", "f">>,
        <<"s", "a", "n", " ", "f", "r", "a", "n", "c", "i", "s", "c", "o">>,
        <<"m", "i", "s", "s", "i", "o", "n", " ", "d", "i", "s", "t", "r", "i", "c", "t">> >>],
    [key |-> <<"M", "i", "a", "m", "i">>,
     alts |-> <<
        <<"m", "i", "a", "m", "i">>,
        <<"w", "y", "n", "w", "o", "o", "d">>,
        <<"s", "o", "u", "t", "h", " ", "b", "e", "a", "c", "h">> >>],
    [key |-> <<"H", "o", "u", "s", "t", "o", "n">>,
     alts |-> <<
        <<"h", "o", "u", "s", "t", "o", "n">> >>],
    [key |-> <<"N", "a", "s", "h", "v", "i", "l", "l", "e">>,
     alts |-> <<
        <<"n", "a", "s", "h", "v", "i", "l", "l", "e">> >>],
    [key |-> <<"P", "o", "r", "t", "l", "a", "n", "d">>,
     alts |-> <<
        <<"p", "o", "r", "t", "l", "a", "n", "d">> >>],
    [key |-> <<"S", "e", "a", "t", "t", "l", "e">>,
     alts |-> <<
        <<"s", "e", "a", "t", "t", "l", "e">> >>],
    [key |-> <<"P", "h", "i", "l", "a", "d", "e", "l", "p", "h", "i", "a">>,
     alts |-> <<
        <<"p", "h", "i", "l", "l", "y">>,
        <<"p", "h", "i", "l", "a", "d", "e", "l", "p", "h", "i", "a">> >>],
    [key |-> <<"D", "a", "l", "l", "a", "s">>,
     alts |-> <<
        <<"d", "a", "l", "l", "a", "s">> >>],
    [key |-> <<"D", "e", "n", "v", "e", "r">>,
     alts |-> <<
        <<"d", "e", "n", "v", "e", "r">> >>],
    [key |-> <<"A", "t", "l", "a", "n", "t", "a">>,
     alts |-> <<
        <<"a", "t", "l", "a", "n", "t", "a">>,
        <<"a", "t", "l">> >>]
  >>

\* cuisineKeywords of extractCuisine, in the order of Object.entries
cuisineKeywords ==
  <<
    [key |-> <<"P", "i", "z", "z", "a">>,
     alts |-> <<
        <<"p", "i", "z", "z", "a">>,
        <<"s", "l", "i", "c", "e">>,
        <<"n", "e", "a", "p", "o", "l", "i", "t", "a", "n">>,
        <<"d", "e", "e", "p", " ", "d", "i", "s", "h">>,
        <<"p", "i", "e">> >>],
    [key |-> <<"B", "B", "Q">>,
     alts |-> <<
        <<"b", "b", "q">>,
        <<"b", "a", "r", "b", "e", "c", "u", "e">>,
        <<"b", "r", "i", "s", "k", "e", "t">>,
        <<"p", "u", "l", "l", "e", "d", " ", "p", "o", "r", "k">>,
        <<"r", "i", "b", "s">>,
        <<"s", "m", "o", "k", "e", "r">> >>],
    [key |-> <<"M", "e", "x", "i", "c", "a", "n">>,
     alts |-> <<
        <<"t", "a", "c", "o">>,
        <<"b", "u", "r", "r", "i", "t", "o">>,
        <<"m", "e", "x", "i", "c", "a", "n">>,
        <<"t", "o", "r", "t", "a">>,
        <<"q", "u", "e", "s", "a", "d", "i", "l", "l", "a">>,
        <<"e", "n", "c", "h", "i", "l", "a", "d", "a">> >>],
    [key |-> <<"C", "h", "i", "n", "e", "s", "e">>,
     alts |-> <<
        <<"c", "h", "i", "n", "e", "s", "e">>,
        <<"d", "i", "m", " ", "s", "u", "m">>,
        <<"d", "u", "m", "p", "l", "i", "n", "g">>,
        <<"n", "o", "o", "d", "l", "e">>,
        <<"w", "o", "n", "t", "o", "n">> >>],
    [key |-> <<"J", "a", "p", "a", "n", "e", "s", "e">>,
     alts |-> <<
        <<"s", "u", "s", "h", "i">>,
        <<"r", "a", "m", "e", "n">>,
        <<"j", "a", "p", "a", "n", "e", "s", "e">>,
        <<"i", "z", "a", "k", "a", "y", "a">>,
        <<"o", "m", "a", "k", "a", "s", "e">> >>],
    [key |-> <<"I", "t", "a", "l", "i", "a", "n">>,
     alts |-> <<
        <<"p", "a", "s", "t", "a">>,
        <<"i", "t", "a", "l", "i", "a", "n">>,
        <<"r", "i", "s", "o", "t", "t", "o">>,
        <<"g", "n", "o", "c", "c", "h", "i">> >>],
    [key |-> <<"I", "n", "d", "i", "a", "n">>,
     alts |-> <<
        <<"c", "u", "r", "r", "y">>,
        <<"i", "n", "d", "i", "a", "n">>,
        <<"n", "a", "a", "n">>,
        <<"t", "a", "n", "d", "o", "o", "r", "i">>,
        <<"b", "i", "r", "y", "a", "n", "i">> >>],
    [key |-> <<"T", "h", "a", "i">>,
     alts |-> <<
        <<"t", "h", "a", "i">>,
        <<"p", "a", "d", " ", "t", "h", "a", "i">>,
        <<"g", "r", "e", "e", "n", " ", "c", "u", "r", "r", "y">> >>],
    [key |-> <<"K", "o", "r", "e", "a", "n">>,
     alts |-> <<
        <<"k", "o", "r", "e", "a", "n">>,
        <<"b", "i", "b", "i", "m", "b", "a", "p">>,
        <<"k", "i", "m", "c", "h", "i">>,
        <<"k", "b", "b", "q">> >>],
    [key |-> <<"D", "e", "l", "i">>,
     alts |-> <<
        <<"d", "e", "l", "i">>,
        <<"p", "a", "s", "t", "r", "a", "m", "i">>,
        <<"c", "o", "r", "n", "e", "d", " ", "b", "e", "e", "f">>,
        <<"s", "a", "n", "d", "w", "i", "c", "h">> >>],
    [key |-> <<"B", "u", "r", "g", "e", "r">>,
     alts |-> <<
        <<"b", "u", "r", "g", "e", "r">>,
        <<"s", "m", "a", "s", "h", " ", "b", "u", "r", "g", "e", "r">> >>],
    [key |-> <<"S", "e", "a", "f", "o", "o", "d">>,
     alts |-> <<
        <<"s", "e", "a", "f", "o", "o", "d">>,
        <<"l", "o", "b", "s", "t", "e", "r">>,
        <<"c", "r", "a", "b">>,
        <<"o", "y", "s", "t", "e", "r">>,
        <<"s", "h", "r", "i", "m", "p">> >>],
    [key |-> <<"M", "i", "d", "d", "l", "e", " ", "E", "a", "s", "t", "e", "r", "n">>,
     alts |-> <<
        <<"s", "h", "a", "w", "a", "r", "m", "a">>,
        <<"f", "a", "l", "a", "f", "e", "l">>,
        <<"h", "u", "m", "m", "u", "s">>,
        <<"m", "i", "d", "d", "l", "e", " ", "e", "a", "s", "t", "e", "r", "n">>,
        <<"k", "e", "b", "a", "b">> >>],
    [key |-> <<"V", "e", "g", "e", "t", "a", "r", "i", "a", "n">>,
     alts |-> <<
        <<"v", "e", "g", "a", "n">>,
        <<"v", "e", "g", "e", "t", "a", "r", "i", "a", "n">>,
        <<"v", "e", "g", "g", "i", "e">>,
        <<"p", "l", "a", "n", "t", "-", "b", "a", "s", "e", "d">> >>],
    [key |-> <<"A", "m", "e", "r", "i", "c", "a", "n">>,
     alts |-> <<
        <<"a", "m", "e", "r", "i", "c", "a", "n">>,
        <<"c", "o", "m", "f", "o", "r", "t", " ", "f", "o", "o", "d">>,
        <<"d", "i", "n", "e", "r">> >>],
    [key |-> <<"F", "r", "e", "n", "c", "h">>,
     alts |-> <<
        <<"f", "r", "e", "n", "c", "h">>,
        <<"b", "i", "s", "t", "r", "o">>,
        <<"c", "r", "o", "i", "s", "s", "a", "n", "t">>,
        <<"b", "r", "a", "s", "s", "e", "r", "i", "e">> >>],
    [key |-> <<"R", "u", "s", "s", "i", "a", "n">>,
     alts |-> <<
        <<"r", "u", "s", "s", "i", "a", "n">>,
        <<"g", "e", "o", "r", "g", "i", "a", "n">>,
        <<"p", "e", "l", "m", "e", "n", "i">>,
        <<"k", "h", "a", "c", "h", "a", "p", "u", "r", "i">> >>]
  >>

\* stateMap of getState
stateMap ==
  <<
    [key |-> <<"N", "e", "w", " ", "Y", "o", "r", "k">>, val |-> <<"N", "Y">>],
    [key |-> <<"L", "o", "s", " ", "A", "n", "g", "e", "l", "e", "s">>, val |-> <<"C", "A">>],
    [key |-> <<"C", "h", "i", "c", "a", "g", "o">>, val |-> <<"I", "L">>],
    [key |-> <<"A", "u", "s", "t", "i", "n">>, val |-> <<"T", "X">>],
    [key |-> <<"S", "a", "n", " ", "F", "r", "a", "n", "c", "i", "s", "c", "o">>, val |-> <<"C", "A">>],
    [key |-> <<"M", "i", "a", "m", "i">>, val |-> <<"F", "L">>],
    [key |-> <<"H", "o", "u", "s", "t", "o", "n">>, val |-> <<"T", "X">>],
    [key |-> <<"N", "a", "s", "h", "v", "i", "l", "l", "e">>, val |-> <<"T", "N">>],
    [key |-> <<"P", "o", "r", "t", "l", "a", "n", "d">>, val |-> <<"O", "R">>],
    [key |-> <<"S", "e", "a", "t", "t", "l", "e">>, val |-> <<"W", "A">>],
    [key |-> <<"P", "h", "i", "l", "a", "d", "e", "l", "p", "h", "i", "a">>, val |-> <<"P", "A">>],
    [key |-> <<"D", "a", "l", "l", "a", "s">>, val |-> <<"T", "X">>],
    [key |-> <<"D", "e", "n", "v", "e", "r">>, val |-> <<"C", "O">>],
    [key |-> <<"A", "t", "l", "a", "n", "t", "a">>, val |-> <<"G", "A">>]
  >>

\* ------------------------------------------------------------- slugify

\* one replace(/X+/g, r) pass: every maximal run of characters of class X
\* becomes the text r
RECURSIVE ReplaceRuns(_, _, _)
ReplaceRuns(s, X, r) ==
  IF s = <<>> THEN <<>>
  ELSE IF Head(s) \in X
       THEN IF Len(s) > 1 /\ s[2] \in X
            THEN ReplaceRuns(Tail(s), X, r)
            ELSE r \o ReplaceRuns(Tail(s), X, r)
       ELSE <<Head(s)>> \o ReplaceRuns(Tail(s), X, r)

\* replace(/^-|-$/g, ''): one dash at the start and one at the end
TrimDash(s) ==
  LET a == IF s # <<>> /\ Head(s) = "-" THEN Tail(s) ELSE s
  IN  IF a # <<>> /\ a[Len(a)] = "-" THEN SubSeq(a, 1, Len(a) - 1) ELSE a

SlugKeep(c) == c \in Lower \cup Digit \cup Space \cup {"-"}

\* slugify without the last replace
slugifyUntrimmed(text) ==
  ReplaceRuns(ReplaceRuns(SelectSeq(toLowerCase(text), SlugKeep), Space, <<"-">>),
              {"-"}, <<"-">>)

slugify(text) ==
  LET lower    == toLowerCase(text)
      stripped == SelectSeq(lower, SlugKeep)
      dashed   == ReplaceRuns(stripped, Space, <<"-">>)
      single   == ReplaceRuns(dashed, {"-"}, <<"-">>)
  IN  TrimDash(single)

\* ------------------------------------------------------ caption cleaning

\* the length of the run of characters of class X that starts s
RECURSIVE RunLen(_, _)
RunLen(s, X) ==
  IF s # <<>> /\ Head(s) \in X THEN 1 + RunLen(Tail(s), X) ELSE 0

\* replace(/#\w+/g, '')
RECURSIVE StripHashtags(_)
StripHashtags(s) ==
  IF s = <<>> THEN <<>>
  ELSE IF Head(s) = "#" /\ RunLen(Tail(s), WordChar) >= 1
       THEN StripHashtags(Drop(s, 1 + RunLen(Tail(s), WordChar)))
       ELSE <<Head(s)>> \o StripHashtags(Tail(s))

Http == <<"h", "t", "t", "p", ":", "/", "/">>
Https == <<"h", "t", "t", "p", "s", ":", "/", "/">>

\* the length of the match of /https?:\/\/\S+/ at the start of s, 0 for none
UrlLen(s) ==
  LET scheme == IF StartsWith(s, Https) THEN Len(Https)
                ELSE IF StartsWith(s, Http) THEN Len(Http) ELSE 0
      rest   == IF scheme = 0 THEN 0
                ELSE RunLen([i \in 1..(Len(s) - scheme) |->
                               IF s[scheme + i] \in Space THEN " " ELSE "x"], {"x"})
  IN  IF scheme > 0 /\ rest >= 1 THEN scheme + rest ELSE 0

\* replace(/https?:\/\/\S+/g, '')
RECURSIVE StripUrls(_)
StripUrls(s) ==
  IF s = <<>> THEN <<>>
  ELSE IF UrlLen(s) > 0 THEN StripUrls(Drop(s, UrlLen(s)))
       ELSE <<Head(s)>> \o StripUrls(Tail(s))

\* replace(/[^\w\s'-]/g, ' ')
BlankPunctuation(s) ==
  [i \in 1..Len(s) |->
     IF s[i] \in WordChar \cup Space \cup {"'", "-"} THEN s[i] ELSE " "]

\* String.prototype.trim
RECURSIVE TrimLeft(_)
TrimLeft(s) == IF s # <<>> /\ Head(s) \in Space THEN TrimLeft(Tail(s)) ELSE s

RECURSIVE TrimRight(_)
TrimRight(s) ==
  IF s # <<>> /\ s[Len(s)] \in Space THEN TrimRight(SubSeq(s, 1, Len(s) - 1)) ELSE s

trim(s) == TrimRight(TrimLeft(s))

\* the cleaned caption of extractRestaurantName
cleanCaption(caption) ==
  trim(ReplaceRuns(BlankPunctuation(StripUrls(StripHashtags(caption))), Space, <<" ">>))

\* split(/\s+/): the words of a text; a text without words gives <<>>, where
\* JavaScript gives the one empty word, which no rule of the extractor accepts
RECURSIVE Words(_)
Words(s) ==
  LET t == TrimLeft(s)
      n == IF t = <<>> THEN 0
           ELSE RunLen([i \in 1..Len(t) |-> IF t[i] \in Space THEN " " ELSE "x"], {"x"})
  IN  IF t = <<>> THEN <<>>
      ELSE <<SubSeq(t, 1, n)>> \o Words(Drop(t, n))

\* words i..j joined by single blanks
RECURSIVE Join(_, _, _)
Join(ws, i, j) ==
  IF i > j THEN <<>>
  ELSE IF i = j THEN ws[i]
  ELSE ws[i] \o <<" ">> \o Join(ws, i + 1, j)

\* ------------------------------------------------- extractRestaurantName

\* JavaScript's null and undefined, kept apart from every text (no character
\* is one of these atoms)
Null == <<"null">>
Undefined == <<"undefined">>

\* the falsy texts: !x
Falsy(x) == x \in {<<>>, Null, Undefined}

In == <<"i", "n">>
The == <<"t", "h", "e">>
Directions == {<<"E", "a", "s", "t">>, <<"W", "e", "s", "t">>, <<"N", "o", "r", "t", "h">>, <<"S", "o", "u", "t", "h">>}
IsWord == <<"i", "s">>
HasWord == <<"h", "a", "s">>
BestWord == <<"b", "e", "s", "t">>
WorthWord == <<"w", "o", "r", "t", "h">>
IsCap == <<"I", "s">>
AtWord == <<"a", "t">>

\* [A-Z][a-z]+ matches at the start of word w
CapLow(w) == Len(w) >= 2 /\ w[1] \in Upper /\ w[2] \in Lower

\* (?:the\s+)?(?:East\s+|West\s+|North\s+|South\s+)?[A-Z][a-z]+ matches at word j
InTail(ws, j) ==
  \E a \in {0, 1}, b \in {0, 1} :
    /\ j + a + b <= Len(ws)
    /\ a = 1 => ws[j] = The
    /\ b = 1 => ws[j + a] \in Directions
    /\ CapLow(ws[j + a + b])

\* the least member of a non-empty set of numbers
Least(S) == CHOOSE m \in S : \A o \in S : m <= o

\* /^(.+?)\s+in\s+(?:the\s+)?(?:East\s+|West\s+|North\s+|South\s+)?[A-Z][a-z]+/
\* on a cleaned caption: match[1], or Null
pattern1(ws) ==
  LET ks == {k \in 1..Len(ws) : k + 2 <= Len(ws) /\ ws[k + 1] = In /\ InTail(ws, k + 2)}
  IN  IF ks = {} THEN Null ELSE Join(ws, 1, Least(ks))

\* every character of words i..j is of [A-Za-z']
NameWords(ws, i, j) ==
  \A k \in i..j : \A c \in 1..Len(ws[k]) : ws[k][c] \in Upper \cup Lower \cup {"'"}

\* \bat followed by white space: the word is "at", or ends in "at" after a
\* character that is not of \w
EndsInAt(w) ==
  \/ w = AtWord
  \/ /\ Len(w) >= 3
     /\ SubSeq(w, Len(w) - 1, Len(w)) = AtWord
     /\ w[Len(w) - 2] \notin WordChar

\* (?:\s+[-—]|\s+is|\s+has|\s*$) matches after the word before word j
AtEnd(ws, j) ==
  \/ j > Len(ws)
  \/ /\ j <= Len(ws)
     /\ \/ ws[j][1] = "-"
        \/ StartsWith(ws[j], IsWord)
        \/ StartsWith(ws[j], HasWord)

\* the ends m of ([A-Z][A-Za-z'\s]+?) when the group starts with word i
GroupEnds(ws, i) ==
  {m \in i..Len(ws) :
     /\ ws[i][1] \in Upper
     /\ NameWords(ws, i, m)
     /\ Len(Join(ws, i, m)) >= 2}

\* /\bat\s+([A-Z][A-Za-z'\s]+?)(?:\s+[-—]|\s+is|\s+has|\s*$)/
pattern2(ws) ==
  LET ends(i) == {m \in GroupEnds(ws, i + 1) : AtEnd(ws, m + 1)}
      is == {i \in 1..(Len(ws) - 1) : EndsInAt(ws[i]) /\ ends(i) # {}}
  IN  IF is = {} THEN Null
      ELSE Join(ws, Least(is) + 1, Least(ends(Least(is))))

\* /^([A-Z][A-Za-z'\s]+?)\s+[-—]/
pattern3(ws) ==
  LET ms == IF ws = <<>> THEN {}
            ELSE {m \in GroupEnds(ws, 1) : m + 1 <= Len(ws) /\ ws[m + 1][1] = "-"}
  IN  IF ms = {} THEN Null ELSE Join(ws, 1, Least(ms))

\* /^([A-Z][A-Za-z'\s]+?)\s+has\s+the\s+best/
pattern4(ws) ==
  LET ms == IF ws = <<>> THEN {}
            ELSE {m \in GroupEnds(ws, 1) :
                    /\ m + 3 <= Len(ws)
                    /\ ws[m + 1] = HasWord
                    /\ ws[m + 2] = The
                    /\ StartsWith(ws[m + 3], BestWord)}
  IN  IF ms = {} THEN Null ELSE Join(ws, 1, Least(ms))

\* /^Is\s+(.+?)\s+worth/
pattern5(ws) ==
  LET ms == {m \in 2..Len(ws) :
               /\ ws[1] = IsCap
               /\ m + 1 <= Len(ws)
               /\ StartsWith(ws[m + 1], WorthWord)}
  IN  IF ms = {} THEN Null ELSE Join(ws, 2, Least(ms))

\* the patterns array, in order
patterns(ws) == <<pattern1(ws), pattern2(ws), pattern3(ws), pattern4(ws), pattern5(ws)>>

\* match[1].trim().replace(/\s+/g, ' ').replace(/^(Is|At|The)\s+/i, '')
matchName(group) ==
  LET ws == Words(group)
  IN  IF Len(ws) >= 2 /\ toLowerCase(ws[1]) \in {IsWord, AtWord, The}
      THEN Join(ws, 2, Len(ws))
      ELSE Join(ws, 1, Len(ws))

\* the names of the patterns that match and give a name of 3 to 50 characters
RECURSIVE firstPatternName(_, _)
firstPatternName(ms, i) ==
  IF i > Len(ms) THEN Null
  ELSE IF ms[i] # Null /\ Len(matchName(ms[i])) >= 3 /\ Len(matchName(ms[i])) <= 50
       THEN matchName(ms[i])
       ELSE firstPatternName(ms, i + 1)

\* The named-entity recogniser nlp(cleaned) is the library compromise, which is
\* not part of the repository.  It is stood in for by a lexicon: an entry is
\* recognised where it occurs in the cleaned caption, in lexicon order.
OrganizationLexicon == <<<<"S", "h", "a", "k", "e", " ", "S", "h", "a", "c", "k">>>>
PlaceLexicon == <<<<"T", "e", "x", "a", "s">>>>

nlpFind(lexicon, cleaned) ==
  SelectSeq(lexicon, LAMBDA e : includes(cleaned, e))

\* "Last resort: take first 2-3 capitalized words"
isCapitalized(word) ==
  /\ word # <<>>
  /\ word[1] = toUpperChar(word[1])
  /\ Len(word) > 1

RECURSIVE capitalizedWords(_, _)
capitalizedWords(ws, acc) ==
  IF ws = <<>> THEN acc
  ELSE IF isCapitalized(Head(ws))
       THEN IF Len(acc) + 1 >= 3 THEN Append(acc, Head(ws))
            ELSE capitalizedWords(Tail(ws), Append(acc, Head(ws)))
       ELSE IF Len(acc) > 0 THEN acc
            ELSE capitalizedWords(Tail(ws), acc)

\* overrides?.overrides?.[videoId], Undefined where the table has no entry
overrideOf(table, videoId) ==
  IF videoId \in DOMAIN table THEN table[videoId] ELSE Undefined

\* the name the caption alone gives, lines 75-137
captionName(caption) ==
  LET cleaned == cleanCaption(caption)
      ws      == Words(cleaned)
      byRule  == firstPatternName(patterns(ws), 1)
      orgs    == nlpFind(OrganizationLexicon, cleaned)
      places  == nlpFind(PlaceLexicon, cleaned)
      caps    == capitalizedWords(ws, <<>>)
  IN  IF byRule # Null THEN byRule
      ELSE IF Len(orgs) > 0 THEN orgs[1]
      ELSE IF Len(places) > 0 THEN places[1]
      ELSE IF Len(caps) > 0 THEN Join(caps, 1, Len(caps))
      ELSE Null

\* extractRestaurantName with the override consulted after the caption rules
extractRestaurantNameRulesFirst(caption, videoId, table) ==
  IF captionName(caption) # Null THEN captionName(caption)
  ELSE IF ~Falsy(overrideOf(table, videoId)) THEN table[videoId]
  ELSE Null

extractRestaurantName(caption, videoId, table) ==
  IF ~Falsy(overrideOf(table, videoId)) THEN table[videoId]
  ELSE captionName(caption)

\* ------------------------------------------- extractCity, extractCuisine

\* \b(?:alt)\b with the i flag matches in s at position i
WordAt(s, i, alt) ==
  /\ OccursAt(toLowerCase(s), i, alt)
  /\ i = 1 \/ s[i - 1] \notin WordChar
  /\ i + Len(alt) > Len(s) \/ s[i + Len(alt)] \notin WordChar

\* pattern.test(caption)
cityTest(entry, caption) ==
  \E a \in 1..Len(entry.alts) : \E i \in 1..Len(caption) : WordAt(caption, i, entry.alts[a])

extractCity(caption) ==
  LET hits == {k \in 1..Len(cityPatterns) : cityTest(cityPatterns[k], caption)}
  IN  IF hits = {} THEN <<>> ELSE cityPatterns[Least(hits)].key

extractCuisine(caption) ==
  LET lower == toLowerCase(caption)
      hits  == {k \in 1..Len(cuisineKeywords) :
                  \E a \in 1..Len(cuisineKeywords[k].alts) :
                    includes(lower, cuisineKeywords[k].alts[a])}
  IN  IF hits = {} THEN <<>> ELSE cuisineKeywords[Least(hits)].key

\* stateMap[city] || ''
getState(cityName) ==
  LET hits == {k \in 1..Len(stateMap) : stateMap[k].key = cityName}
  IN  IF hits = {} THEN <<>> ELSE stateMap[Least(hits)].val

\* ------------------------------------------------------------ the data

\* The inputs of the model.  Opaque texts that the code only stores and tests
\* for emptiness (video ids, addresses, place ids, urls) are plain strings;
\* NoText is the absent field (undefined).
NoText == "undefined"
Blank(a) == a \in {"", NoText}

\* the most operations (an ingestion, an edit of overrides.json, a run of the
\* pipeline) the model explores
MaxOps == 4

\* a Video of videos.json (src/lib/data.ts, interface Video)
Video(id, caption, restaurantSlug, createTime, likes) ==
  [videoId |-> id, caption |-> caption, createTime |-> createTime,
   thumbnailUrl |-> "/assets/images/" \o id \o "/frame-1.jpg",
   restaurantSlug |-> restaurantSlug, city |-> <<>>, cuisine |-> <<>>,
   stats |-> [likes |-> likes, comments |-> 0, shares |-> 0]]

\* the video objects that ingestion can supply: scraped records carry an empty
\* classification, a record of manual-videos.json is stored as it is written
VideoPool ==
  { Video("v1", <<"T", "a", "t", "i", "a", "n", "a", " ", "i", "n", " ", "B", "r", "o", "o", "k", "l", "y", "n">>, <<>>, 100, 7),
    Video("v2", <<"T", "a", "t", "i", "a", "n", "a", " ", "i", "n", " ", "Q", "u", "e", "e", "n", "s", " ", "p", "i", "z", "z", "a">>, <<>>, 200, 9),
    Video("v3", <<"s", "o", " ", "g", "o", "o", "d">>, <<"g", "h", "o", "s", "t">>, 300, 3),
    Video("v4", <<"C", "o", "n", "s", "t", "r", "u", "c", "t", "o", "r", " ", "-", " ", "w", "o", "w">>, <<>>, 400, 1) }

\* a persisted document: absent, unparseable, or parsed to doc
Absent == [st |-> "absent", doc |-> <<>>]
Malformed == [st |-> "malformed", doc |-> <<>>]
Doc(d) == [st |-> "ok", doc |-> d]

\* the table overrides.json is first given by its author: a name for a
\* caption that yields none
FirstTable == [id \in {"v3"} |-> <<"K", "a", "t", "z", "'", "s", " ", "D", "e", "l", "i">>]

\* the tables its author can make of it later: another name for that
\* caption and a name for a caption that yields one; a name without a letter
\* or digit of [a-z0-9]
OverrideTables ==
  { FirstTable,
    [id \in {"v1", "v3"} |-> <<"J", "o", "e", "'", "s">>],
    [id \in {"v3"} |-> <<"!", "!", "!">>] }

\* overrides.json: not there, unparseable, or one of the tables
OverrideDocs == {Absent, Malformed} \cup {Doc(t) : t \in OverrideTables}

\* what a rating provider can answer.  NoResult is the adapter's null.
NoResult == [found |-> FALSE]

GoogleResults ==
  { [found |-> TRUE,
     google |-> [rating |-> 4, reviewCount |-> 120, placeId |-> "place-a"],
     address |-> "1 Main St", lat |-> 40, lng |-> 73,
     reviews |-> <<[source |-> "google", author |-> "ann", rating |-> 5,
                    text |-> "great", date |-> "2024-01-01"]>>],
    [found |-> TRUE,
     google |-> [rating |-> 0, reviewCount |-> 0, placeId |-> "place-b"],
     address |-> "2 Side St", lat |-> 41, lng |-> 74,
     reviews |-> <<>>] }

YelpResults ==
  { [found |-> TRUE, yelp |-> [rating |-> 4, reviewCount |-> 80, url |-> "https://yelp/a"]],
    [found |-> TRUE, yelp |-> [rating |-> 3, reviewCount |-> 5, url |-> ""]] }

\* the environment and arguments of one invocation of the pipeline
Configs ==
  { [googleKey |-> TRUE,  yelpKey |-> TRUE,  skipApi |-> FALSE, dryRun |-> FALSE],
    [googleKey |-> FALSE, yelpKey |-> FALSE, skipApi |-> FALSE, dryRun |-> FALSE],
    [googleKey |-> TRUE,  yelpKey |-> TRUE,  skipApi |-> TRUE,  dryRun |-> TRUE] }

NoConfig == [googleKey |-> FALSE, yelpKey |-> FALSE, skipApi |-> FALSE, dryRun |-> FALSE]

\* ------------------------------------------------------------ the state

VARIABLES
  diskVideos,          \* data/videos.json
  diskRestaurants,     \* data/restaurants.json
  diskOverrides,       \* data/overrides.json
  pc,                  \* where the pipeline process is; "idle" when none runs
  status,              \* how the last pipeline process ended
  ops,                 \* ingestions, edits of overrides.json and pipeline runs so far
  config,              \* GOOGLE_PLACES_KEY, YELP_API_KEY, SKIP_API, DRY_RUN
  videos,              \* main: videos
  existingRestaurants, \* main: existingRestaurants
  overrides,           \* main: overrides.overrides
  updatedVideos,       \* main: updatedVideos
  updatedRestaurants,  \* main: updatedRestaurants
  idx,                 \* the position of the for loop in videos
  name,                \* loop body: name
  slug,                \* loop body: slug
  city,                \* loop body: city
  extracted,           \* main: extracted
  enriched,            \* main: enriched
  start,               \* the three documents as the last invocation found them
  called,              \* the (slug, provider) pairs fetched over the network in this run
  failed,              \* the (slug, provider) pairs whose fetch gave no result in this run
  retry,               \* the pairs of failed left unenriched by the last saved run
  cleanOutput,         \* the documents on disk are a completed run's output, untouched since
  rerun,               \* this run started from a completed run's output, with its override table
  fnArgs,              \* the arguments of a function applied on its own
  fnResult,            \* its result
  capturedData,        \* what the last scraper process had captured when it failed
  scrapeStatus,        \* how the last process ended, when it was the scraper
  invoked,             \* the provider whose adapter the loop body's last step called
  pace                 \* whether the last step fetched from a provider, and whether a
                       \* fetch of this run has had no delay(200) after it yet

disk == <<diskVideos, diskRestaurants, diskOverrides>>
mem == <<config, videos, existingRestaurants, overrides, updatedVideos,
         updatedRestaurants, idx, name, slug, city, extracted, enriched>>
hist == <<start, called, failed, retry, cleanOutput, rerun>>
fn == <<fnArgs, fnResult>>
scraper == <<capturedData, scrapeStatus>>
vars == <<disk, pc, status, ops, mem, hist, fn, scraper, invoked, pace>>

NoStart == [videos |-> Absent, restaurants |-> Absent, overrides |-> Absent, taken |-> FALSE]
NoArgs == [fn |-> "none"]
NotApplied == [done |-> FALSE, val |-> Null]
NoPace == [fetched |-> FALSE, undelayed |-> FALSE]

\* the pipeline's memory when no process runs
MemIdle ==
  /\ config = NoConfig
  /\ videos = <<>>
  /\ existingRestaurants = <<>>
  /\ overrides = <<>>
  /\ updatedVideos = <<>>
  /\ updatedRestaurants = <<>>
  /\ idx = 0
  /\ name = Null
  /\ slug = <<>>
  /\ city = <<>>
  /\ extracted = 0
  /\ enriched = 0

\* a fresh checkout: no data file yet, overrides.json as its author left it
Init ==
  /\ diskVideos = Absent
  /\ diskRestaurants = Absent
  /\ diskOverrides \in {Absent, Doc(FirstTable)}
  /\ pc = "idle"
  /\ status = "none"
  /\ ops = 0
  /\ MemIdle
  /\ start = NoStart
  /\ called = {}
  /\ failed = {}
  /\ retry = {}
  /\ cleanOutput = FALSE
  /\ rerun = FALSE
  /\ fnArgs = NoArgs
  /\ fnResult = NotApplied
  /\ capturedData = <<>>
  /\ scrapeStatus = "none"
  /\ invoked = "none"
  /\ pace = NoPace

\* process.exit / the end of main: the process and its memory are gone
Exit(how) ==
  /\ pc' = "idle"
  /\ status' = how
  /\ config' = NoConfig
  /\ videos' = <<>>
  /\ existingRestaurants' = <<>>
  /\ overrides' = <<>>
  /\ updatedVideos' = <<>>
  /\ updatedRestaurants' = <<>>
  /\ idx' = 0
  /\ name' = Null
  /\ slug' = <<>>
  /\ city' = <<>>
  /\ extracted' = 0
  /\ enriched' = 0

\* the same, for a process that went past the reading of its documents
EndRun(how) ==
  /\ Exit(how)
  /\ called' = {}
  /\ failed' = {}
  /\ start' = IF how = "ok" THEN NoStart ELSE start

\* ------------------------------------------------- scrape-tiktok.js --manual

\* loadExistingVideos: no file and an unparseable file both give []
loadExistingVideos(file) == IF file.st = "ok" THEN file.doc ELSE <<>>

\* lines 110-118: the videos of manual-videos.json not yet known are pushed
RECURSIVE addManual(_, _)
addManual(existing, manualVideos) ==
  IF manualVideos = <<>> THEN existing
  ELSE addManual(IF \E i \in 1..Len(existing) :
                      existing[i].videoId = Head(manualVideos).videoId
                 THEN existing
                 ELSE Append(existing, Head(manualVideos)),
                 Tail(manualVideos))

\* runManualMode with manual-videos.json holding the one video object v
runManualMode(v) ==
  /\ pc = "idle"
  /\ diskVideos' = Doc(addManual(loadExistingVideos(diskVideos), <<v>>))
  /\ ops < MaxOps
  /\ ops' = ops + 1
  /\ start' = NoStart
  /\ cleanOutput' = FALSE
  /\ UNCHANGED <<diskRestaurants, diskOverrides, pc, status, mem,
                 called, failed, retry, rerun, fn, invoked, pace>>
  /\ capturedData' = <<>>
  /\ scrapeStatus' = "none"

\* --max, SCRAPE_MAX or the default
MAX_VIDEOS == 50

\* the video made of a link found in the DOM, lines 356-365; createTime is the
\* clock's
domVideo(id) ==
  [videoId |-> id, caption |-> <<>>, createTime |-> 500,
   thumbnailUrl |-> "/assets/images/" \o id \o "/frame-1.jpg",
   restaurantSlug |-> <<>>, city |-> <<>>, cuisine |-> <<>>,
   stats |-> [likes |-> 0, comments |-> 0, shares |-> 0]]

\* what the page gives: parsed items of the embedded data and of the XHR
\* responses, and ids of video links in the DOM
CapturedLists ==
  {<<>>} \cup {<<v>> : v \in {p \in VideoPool : p.restaurantSlug = <<>>}}
         \cup {<<v, w>> : v \in {p \in VideoPool : p.videoId = "v1"},
                          w \in {p \in VideoPool : p.videoId = "v2"}}

DomIds == {"v1"}

DomLists == {<<>>} \cup {<<id>> : id \in DomIds}

\* every video ingestion can put in videos.json
KnownVideos == VideoPool \cup {domVideo(id) : id \in DomIds}

\* lines 340-349 and 352-370: the items not yet known are pushed, up to max
RECURSIVE pushNew(_, _, _)
pushNew(acc, items, max) ==
  IF items = <<>> \/ acc.added >= max THEN acc
  ELSE pushNew(IF \E i \in 1..Len(acc.existing) :
                    acc.existing[i].videoId = Head(items).videoId
               THEN acc
               ELSE [existing |-> Append(acc.existing, Head(items)),
                     added |-> acc.added + 1],
               Tail(items), max)

\* the merge with the new videos put before the known ones
mergeScrapeNewFirst(existing, items, dom, max) ==
  LET parsed == pushNew([existing |-> existing, added |-> 0], items, max)
      all    == pushNew(parsed, [i \in 1..Len(dom) |-> domVideo(dom[i])], max)
  IN  SubSeq(all.existing, Len(existing) + 1, Len(all.existing)) \o existing

\* lines 334-370: the captured items, then the DOM's links, are merged into
\* the videos of videos.json
mergeScrape(existing, items, dom, max) ==
  LET parsed == pushNew([existing |-> existing, added |-> 0], items, max)
      all    == pushNew(parsed, [i \in 1..Len(dom) |-> domVideo(dom[i])], max)
  IN  all.existing

\* scrape, lines 189-383, and main's catch, lines 463-468.  An error thrown
\* in the try block (the browser, the page, a timeout) is logged and thrown
\* again: the process exits with status 1 and saveVideos is not reached.
scrape(items, dom, throws) ==
  /\ pc = "idle"
  /\ ops < MaxOps
  /\ ops' = ops + 1
  /\ IF throws
     THEN /\ capturedData' = items
          /\ scrapeStatus' = "error"
          /\ UNCHANGED <<diskVideos, start, cleanOutput>>
     ELSE /\ diskVideos' =
               Doc(mergeScrape(loadExistingVideos(diskVideos), items, dom, MAX_VIDEOS))
          /\ capturedData' = <<>>
          /\ scrapeStatus' = "ok"
          /\ start' = NoStart
          /\ cleanOutput' = FALSE
  /\ UNCHANGED <<diskRestaurants, diskOverrides, pc, status, mem,
                 called, failed, retry, rerun, fn, invoked, pace>>

\* the author of overrides.json rewrites it (or leaves it unparseable)
EditOverrides(d) ==
  /\ pc = "idle"
  /\ d # diskOverrides
  /\ diskOverrides' = d
  /\ ops < MaxOps
  /\ ops' = ops + 1
  /\ start' = NoStart
  /\ cleanOutput' = FALSE
  /\ UNCHANGED <<diskVideos, diskRestaurants, pc, status, mem,
                 called, failed, retry, rerun, fn, invoked, pace>>
  /\ capturedData' = <<>>
  /\ scrapeStatus' = "none"

\* ------------------------------------------------- enrich-restaurants.js

\* loadJSON that swallows the SyntaxError, as loadExistingVideos does
loadJSONLenient(file) ==
  IF file.st = "ok" THEN [threw |-> FALSE, isNull |-> FALSE, doc |-> file.doc]
  ELSE [threw |-> FALSE, isNull |-> TRUE, doc |-> <<>>]

\* loadJSON: null for no file, the parsed document, or a SyntaxError thrown
loadJSON(file) ==
  IF file.st = "absent" THEN [threw |-> FALSE, isNull |-> TRUE, doc |-> <<>>]
  ELSE IF file.st = "malformed" THEN [threw |-> TRUE, isNull |-> FALSE, doc |-> <<>>]
  ELSE [threw |-> FALSE, isNull |-> FALSE, doc |-> file.doc]

\* The registry is a plain object: obj[key] finds the own entries and, for the
\* one key of [a-z0-9-]* that Object.prototype defines, the inherited
\* function Object, which is truthy and has none of a restaurant's fields.
Constructor == <<"c", "o", "n", "s", "t", "r", "u", "c", "t", "o", "r">>
inherited(obj, key) == key \notin DOMAIN obj /\ key = Constructor
truthyAt(obj, key) == key \in DOMAIN obj \/ inherited(obj, key)

\* await delay(200), lines 397 and 409, after a lookup that gave a result
delay(ms) == [fetched |-> TRUE, undelayed |-> FALSE]

\* searchGooglePlaces: what the adapter can return, and whether it fetched
searchGooglePlaces(cfg) ==
  IF ~cfg.googleKey \/ cfg.skipApi
  THEN {[data |-> NoResult, fetched |-> FALSE]}
  ELSE {[data |-> d, fetched |-> TRUE] : d \in {NoResult} \cup GoogleResults}

\* searchYelp: what the adapter can return, and whether it fetched
searchYelp(cfg) ==
  IF ~cfg.yelpKey \/ cfg.skipApi
  THEN {[data |-> NoResult, fetched |-> FALSE]}
  ELSE {[data |-> d, fetched |-> TRUE] : d \in {NoResult} \cup YelpResults}

\* shell with the name put in the slug field
shellNamed(nm, sl, c, st, cu) ==
  [name |-> nm, slug |-> nm, city |-> c, state |-> st, cuisine |-> cu,
   address |-> "", lat |-> 0, lng |-> 0,
   google |-> [rating |-> 0, reviewCount |-> 0, placeId |-> NoText],
   yelp |-> [rating |-> 0, reviewCount |-> 0, url |-> NoText],
   reviews |-> <<>>, videoIds |-> <<>>]

\* the restaurant created for a slug seen for the first time
shell(nm, sl, c, st, cu) ==
  [name |-> nm, slug |-> sl, city |-> c, state |-> st, cuisine |-> cu,
   address |-> "", lat |-> 0, lng |-> 0,
   google |-> [rating |-> 0, reviewCount |-> 0, placeId |-> NoText],
   yelp |-> [rating |-> 0, reviewCount |-> 0, url |-> NoText],
   reviews |-> <<>>, videoIds |-> <<>>]

\* main, lines 316-329: read the three documents
Load(cfg) ==
  /\ pc = "idle"
  /\ ops < MaxOps
  /\ ops' = ops + 1
  /\ start' = [videos |-> diskVideos, restaurants |-> diskRestaurants,
               overrides |-> diskOverrides, taken |-> TRUE]
  /\ called' = {}
  /\ failed' = {}
  /\ LET v == loadJSON(diskVideos)
         r == loadJSON(diskRestaurants)
         o == loadJSON(diskOverrides)
     IN  IF v.threw THEN Exit("parseError") /\ rerun' = FALSE
         ELSE IF v.isNull THEN Exit("noVideos") /\ rerun' = FALSE
         ELSE IF r.threw \/ o.threw THEN Exit("parseError") /\ rerun' = FALSE
         ELSE /\ pc' = "loop"
              /\ status' = "running"
              /\ config' = cfg
              /\ videos' = v.doc
              /\ existingRestaurants' = r.doc
              /\ overrides' = o.doc
              /\ updatedVideos' = <<>>
              /\ updatedRestaurants' = r.doc
              /\ idx' = 1
              /\ extracted' = 0
              /\ enriched' = 0
              /\ rerun' = cleanOutput
              /\ UNCHANGED <<name, slug, city>>
  /\ UNCHANGED <<disk, retry, cleanOutput, fn, invoked, pace>>
  /\ capturedData' = <<>>
  /\ scrapeStatus' = "none"

\* The text functions are applied to the texts of the model's inputs only, so
\* their values are tabulated once: memo(table, key) is the function's value
\* at key.
memo(table, key) == (CHOOSE e \in table : e.key = key).val

nameTable ==
  { [key |-> <<v.caption, v.videoId, o>>,
     val |-> extractRestaurantName(v.caption, v.videoId, o)] :
      v \in KnownVideos, o \in {<<>>} \cup OverrideTables }

slugTable == { [key |-> e.val, val |-> slugify(e.val)] : e \in nameTable }

cityTable == { [key |-> v.caption, val |-> extractCity(v.caption)] : v \in KnownVideos }

cuisineTable == { [key |-> v.caption, val |-> extractCuisine(v.caption)] : v \in KnownVideos }

stateTable == { [key |-> e.val, val |-> getState(e.val)] : e \in cityTable }

\* updatedVideos.push(video) with the video's restaurantSlug cleared
pushVideoCleared(out, video) == Append(out, [video EXCEPT !.restaurantSlug = <<>>])

\* the video put at the front of updatedVideos
pushVideoFront(out, video) == <<video>> \o out

\* updatedVideos.push(video), lines 339, 347 and 418
pushVideo(out, video) == Append(out, video)

\* the fast path test with the cuisine required too
alreadyEnrichedWithCuisine(video, existing) ==
  /\ ~Falsy(video.restaurantSlug)
  /\ truthyAt(existing, video.restaurantSlug)
  /\ ~Falsy(video.city)
  /\ ~Falsy(video.cuisine)

\* the fast path test of lines 333-337
alreadyEnriched(video, existing) ==
  /\ ~Falsy(video.restaurantSlug)
  /\ truthyAt(existing, video.restaurantSlug)
  /\ ~Falsy(video.city)

\* the test of line 365 taken as true for every slug
missingAlways(registry, key) == TRUE

\* line 365: !updatedRestaurants[slug]
missing(registry, key) == ~truthyAt(registry, key)

\* one iteration of the loop up to the first await, lines 331-382
LoopStep ==
  /\ pc = "loop"
  /\ idx <= Len(videos)
  /\ LET video == videos[idx]
         nm    == memo(nameTable, <<video.caption, video.videoId, overrides>>)
         sl    == memo(slugTable, nm)
         c     == IF ~Falsy(video.city) THEN video.city
                  ELSE memo(cityTable, video.caption)
         cu    == IF ~Falsy(video.cuisine) THEN video.cuisine
                  ELSE memo(cuisineTable, video.caption)
     IN  IF alreadyEnriched(video, existingRestaurants) \/ Falsy(nm)
         THEN /\ updatedVideos' = pushVideo(updatedVideos, video)
              /\ idx' = idx + 1
              /\ UNCHANGED <<pc, videos, updatedRestaurants, name, slug, city, extracted>>
         ELSE /\ extracted' = extracted + 1
              /\ videos' = [videos EXCEPT ![idx] =
                              [@ EXCEPT !.restaurantSlug = sl, !.city = c, !.cuisine = cu]]
              /\ updatedRestaurants' =
                   IF missing(updatedRestaurants, sl)
                   THEN (sl :> shell(nm, sl, c, memo(stateTable, c), cu)) @@ updatedRestaurants
                   ELSE updatedRestaurants
              /\ name' = nm
              /\ slug' = sl
              /\ city' = c
              /\ pc' = "google"
              /\ UNCHANGED <<updatedVideos, idx>>
  /\ UNCHANGED <<disk, status, ops, config, existingRestaurants, overrides,
                 enriched, hist, fn, scraper, invoked, pace>>

\* const restaurant = updatedRestaurants[slug]: an own entry or the inherited one
ownEntry == slug \in DOMAIN updatedRestaurants

\* the gate of line 385 reading the registry as it was loaded
googleGateStale ==
  /\ ~Falsy(city)
  /\ \/ slug \notin DOMAIN existingRestaurants
     \/ Blank(existingRestaurants[slug].google.placeId)
     \/ existingRestaurants[slug].google.rating = 0

\* the gate of line 385 with the city test alone
googleGateCityOnly == ~Falsy(city)

\* the gate of line 385
googleGate ==
  /\ ~Falsy(city)
  /\ \/ ~ownEntry
     \/ Blank(updatedRestaurants[slug].google.placeId)
     \/ updatedRestaurants[slug].google.rating = 0

\* the Google patch with the stored snippets thrown away
patchGoogleReplace(restaurant, googleData) ==
  [restaurant EXCEPT
     !.google = googleData.google,
     !.address = IF googleData.address # "" THEN googleData.address ELSE @,
     !.lat = IF googleData.lat # 0 THEN googleData.lat ELSE @,
     !.lng = IF googleData.lng # 0 THEN googleData.lng ELSE @,
     !.reviews = googleData.reviews]

\* lines 388-395: the fields a Google result sets
patchGoogle(restaurant, googleData) ==
  [restaurant EXCEPT
     !.google = googleData.google,
     !.address = IF googleData.address # "" THEN googleData.address ELSE @,
     !.lat = IF googleData.lat # 0 THEN googleData.lat ELSE @,
     !.lng = IF googleData.lng # 0 THEN googleData.lng ELSE @,
     !.reviews = googleData.reviews \o SelectSeq(@, LAMBDA r : r.source # "google")]

\* lines 384-400
GoogleStep ==
  /\ pc = "google"
  /\ IF googleGate
     THEN \E out \in searchGooglePlaces(config) :
            IF ~out.data.found
            THEN /\ pc' = "yelp"
                 /\ invoked' = "google"
                 /\ pace' = [fetched |-> out.fetched,
                             undelayed |-> out.fetched \/ pace.undelayed]
                 /\ called' = IF out.fetched THEN called \cup {<<slug, "google">>} ELSE called
                 /\ failed' = IF out.fetched THEN failed \cup {<<slug, "google">>} ELSE failed
                 /\ UNCHANGED <<status, mem, start>>
            ELSE IF ~ownEntry
            THEN \* restaurant.reviews is undefined: TypeError, main().catch
                 EndRun("exception") /\ invoked' = "none" /\ pace' = NoPace
            ELSE /\ updatedRestaurants' =
                      [updatedRestaurants EXCEPT ![slug] = patchGoogle(@, out.data)]
                 /\ enriched' = enriched + 1
                 /\ pc' = "yelp"
                 /\ invoked' = "google"
                 /\ pace' = delay(200)
                 /\ called' = called \cup {<<slug, "google">>}
                 /\ UNCHANGED <<status, config, videos, existingRestaurants, overrides,
                                updatedVideos, idx, name, slug, city, extracted,
                                failed, start>>
     ELSE /\ pc' = "yelp"
          /\ invoked' = "none"
          /\ pace' = [fetched |-> FALSE, undelayed |-> pace.undelayed]
          /\ UNCHANGED <<status, mem, called, failed, start>>
  /\ UNCHANGED <<disk, ops, retry, cleanOutput, rerun, fn, scraper>>

\* the gate of line 403
yelpGate ==
  /\ ~Falsy(city)
  /\ \/ ~ownEntry
     \/ Blank(updatedRestaurants[slug].yelp.url)
     \/ updatedRestaurants[slug].yelp.rating = 0

\* line 406
patchYelp(restaurant, yelpData) == [restaurant EXCEPT !.yelp = yelpData.yelp]

\* lines 402-411
YelpStep ==
  /\ pc = "yelp"
  /\ IF yelpGate
     THEN \E out \in searchYelp(config) :
            /\ called' = IF out.fetched THEN called \cup {<<slug, "yelp">>} ELSE called
            /\ failed' = IF out.fetched /\ ~out.data.found
                         THEN failed \cup {<<slug, "yelp">>} ELSE failed
            /\ IF out.data.found
               THEN /\ updatedRestaurants' =
                         IF ownEntry
                         THEN [updatedRestaurants EXCEPT ![slug] = patchYelp(@, out.data)]
                         ELSE updatedRestaurants  \* a property of the function Object
                    /\ enriched' = enriched + 1
                    /\ pace' = delay(200)
               ELSE /\ pace' = [fetched |-> out.fetched,
                                undelayed |-> out.fetched \/ pace.undelayed]
                    /\ UNCHANGED <<updatedRestaurants, enriched>>
     ELSE /\ pace' = [fetched |-> FALSE, undelayed |-> pace.undelayed]
          /\ UNCHANGED <<updatedRestaurants, enriched, called, failed>>
  /\ invoked' = IF yelpGate THEN "yelp" ELSE "none"
  /\ pc' = "link"
  /\ UNCHANGED <<disk, status, ops, config, videos, existingRestaurants, overrides,
                 updatedVideos, idx, name, slug, city, extracted,
                 start, retry, cleanOutput, rerun, fn, scraper>>

\* linkVideo that leaves the list as it is
linkVideoNever(restaurant, videoId) == restaurant

\* linkVideo without the includes test
linkVideoAlways(restaurant, videoId) ==
  [restaurant EXCEPT !.videoIds = Append(@, videoId)]

\* lines 414-416
linkVideo(restaurant, videoId) ==
  IF \E i \in 1..Len(restaurant.videoIds) : restaurant.videoIds[i] = videoId
  THEN restaurant
  ELSE [restaurant EXCEPT !.videoIds = Append(@, videoId)]

\* lines 413-419
LinkStep ==
  /\ pc = "link"
  /\ IF ~ownEntry
     THEN \* restaurant.videoIds is undefined: TypeError, main().catch
          EndRun("exception") /\ invoked' = "none" /\ pace' = NoPace
     ELSE /\ updatedRestaurants' =
               [updatedRestaurants EXCEPT ![slug] = linkVideo(@, videos[idx].videoId)]
          /\ updatedVideos' = pushVideo(updatedVideos, videos[idx])
          /\ idx' = idx + 1
          /\ pc' = "loop"
          /\ invoked' = "none"
          /\ pace' = [fetched |-> FALSE, undelayed |-> pace.undelayed]
          /\ UNCHANGED <<status, config, videos, existingRestaurants, overrides,
                         name, slug, city, extracted, enriched, called, failed, start>>
  /\ UNCHANGED <<disk, ops, retry, cleanOutput, rerun, fn, scraper>>

\* the loop is over
LoopDone ==
  /\ pc = "loop"
  /\ idx > Len(videos)
  /\ pc' = "save"
  /\ pace' = NoPace
  /\ UNCHANGED <<disk, status, ops, mem, hist, fn, scraper, invoked>>

\* what writeFileSync can leave of a file: the new text; or, when the write
\* fails, the old file or a truncated one
writeFileSync(old, new) ==
  { [file |-> Doc(new), threw |-> FALSE],
    [file |-> old, threw |-> TRUE],
    [file |-> Malformed, threw |-> TRUE] }

\* lines 422-424: the dry run ends here, any other run writes videos.json
SaveVideos ==
  /\ pc = "save"
  /\ IF config.dryRun
     THEN /\ EndRun("ok")
          /\ UNCHANGED <<disk, cleanOutput>>
     ELSE \E w \in writeFileSync(diskVideos, updatedVideos) :
            /\ diskVideos' = w.file
            /\ cleanOutput' = FALSE
            /\ IF w.threw THEN EndRun("ioError")
               ELSE pc' = "saveRestaurants" /\ UNCHANGED <<status, mem, called, failed, start>>
            /\ UNCHANGED <<diskRestaurants, diskOverrides>>
  /\ UNCHANGED <<ops, retry, rerun, fn, scraper, invoked, pace>>

\* whether the provider has left the restaurant unenriched
unenriched(restaurant, provider) ==
  IF provider = "google" THEN restaurant.google.rating = 0
  ELSE restaurant.yelp.rating = 0

\* line 425: restaurants.json is written, then main returns
SaveRestaurants ==
  /\ pc = "saveRestaurants"
  /\ \E w \in writeFileSync(diskRestaurants, updatedRestaurants) :
       /\ diskRestaurants' = w.file
       /\ IF w.threw
          THEN /\ EndRun("ioError")
               /\ UNCHANGED <<retry, cleanOutput>>
          ELSE /\ EndRun("ok")
               /\ cleanOutput' = TRUE
               /\ retry' = {p \in failed :
                              /\ p[1] \in DOMAIN updatedRestaurants
                              /\ unenriched(updatedRestaurants[p[1]], p[2])}
  /\ UNCHANGED <<diskVideos, diskOverrides, ops, rerun, fn, scraper, invoked, pace>>

\* the process is killed between two steps
Interrupt ==
  /\ pc \notin {"idle"}
  /\ EndRun("killed")
  /\ invoked' = "none"
  /\ pace' = NoPace
  /\ UNCHANGED <<disk, ops, retry, cleanOutput, rerun, fn, scraper>>

Next ==
  \/ \E v \in VideoPool : runManualMode(v)
  \/ \E items \in CapturedLists, dom \in DomLists, throws \in BOOLEAN :
       scrape(items, dom, throws)
  \/ \E d \in OverrideDocs : EditOverrides(d)
  \/ \E cfg \in Configs : Load(cfg)
  \/ LoopStep
  \/ GoogleStep
  \/ YelpStep
  \/ LinkStep
  \/ LoopDone
  \/ SaveVideos
  \/ SaveRestaurants
  \/ Interrupt

Spec == Init /\ [][Next]_vars

\* ------------------------------- extractRestaurantName applied on its own

ExtractCaptions ==
  {v.caption : v \in VideoPool} \cup {<<>>, <<"J", "o", "e", "'", "s", " ", "P", "i", "z", "z", "a", " ", "h", "a", "s", " ", "t", "h", "e", " ", "b", "e", "s", "t", " ", "s", "l", "i", "c", "e">>}

ExtractIds == {"v1", "v2", "v3"}

ExtractTables ==
  {<<>>} \cup OverrideTables \cup
  { [id \in {"v1"} |-> <<>>],
    [id \in {"v1", "v2"} |-> IF id = "v1" THEN <<"K", "a", "t", "z", "'", "s", " ", "D", "e", "l", "i">> ELSE <<"!", "!", "!">>] }

InitExtract ==
  /\ diskVideos = Absent
  /\ diskRestaurants = Absent
  /\ diskOverrides = Absent
  /\ pc = "idle"
  /\ status = "none"
  /\ ops = 0
  /\ MemIdle
  /\ start = NoStart
  /\ called = {}
  /\ failed = {}
  /\ retry = {}
  /\ cleanOutput = FALSE
  /\ rerun = FALSE
  /\ fnArgs \in [fn : {"extractRestaurantName"}, caption : ExtractCaptions,
                 videoId : ExtractIds, table : ExtractTables]
  /\ fnResult = NotApplied
  /\ capturedData = <<>>
  /\ scrapeStatus = "none"
  /\ invoked = "none"
  /\ pace = NoPace

ApplyExtract ==
  /\ fnArgs.fn = "extractRestaurantName"
  /\ ~fnResult.done
  /\ fnResult' = [done |-> TRUE,
                  val |-> extractRestaurantName(fnArgs.caption, fnArgs.videoId, fnArgs.table)]
  /\ UNCHANGED <<disk, pc, status, ops, mem, hist, fnArgs, scraper, invoked, pace>>

NextExtract == ApplyExtract

SpecExtract == InitExtract /\ [][NextExtract]_vars

\* ------------------------------------------------ src/lib/data.ts

\* String.prototype.slice(0, n)
slice0(s, n) == SubSeq(s, 1, IF Len(s) < n THEN Len(s) ELSE n)

\* the length of the caption's part of a video's slug
SlugCut == 50

\* videoSlug without the replace(/-$/, '')
videoSlugCut(video) ==
  slice0(slugify(video.caption), SlugCut) \o <<"-">> \o video.videoId

\* videoSlug, of src/lib/data.ts.  Its slugify is the text of the pipeline's.
videoSlug(video) ==
  LET cut         == slice0(slugify(video.caption), SlugCut)
      captionSlug == IF cut # <<>> /\ cut[Len(cut)] = "-"
                     THEN SubSeq(cut, 1, Len(cut) - 1) ELSE cut
  IN  captionSlug \o <<"-">> \o video.videoId

\* getVideosByCity comparing with === alone
getVideosByCityExact(vs, query) == SelectSeq(vs, LAMBDA v : v.city = query)

\* getVideosByCity, over the item list vs that getVideos() returns
getVideosByCity(vs, query) ==
  SelectSeq(vs, LAMBDA v : toLowerCase(v.city) = toLowerCase(query))

\* getVideosByCuisine
getVideosByCuisine(vs, query) ==
  SelectSeq(vs, LAMBDA v : toLowerCase(v.cuisine) = toLowerCase(query))

\* Array.prototype.sort with the comparator of lines 122-127, which is stable:
\* an entry goes after every entry with as many likes or more
RECURSIVE insertByLikes(_, _)
insertByLikes(sorted, e) ==
  IF sorted = <<>> THEN <<e>>
  ELSE IF Head(sorted).video.stats.likes >= e.video.stats.likes
       THEN <<Head(sorted)>> \o insertByLikes(Tail(sorted), e)
       ELSE <<e>> \o sorted

RECURSIVE sortByLikes(_, _)
sortByLikes(entries, sorted) ==
  IF entries = <<>> THEN sorted
  ELSE sortByLikes(Tail(entries), insertByLikes(sorted, Head(entries)))

\* restaurants[video.restaurantSlug]: the entry, the inherited function, or undefined
lookup(obj, key) ==
  IF key \in DOMAIN obj THEN obj[key]
  ELSE IF inherited(obj, key) THEN [inherited |-> TRUE]
  ELSE [undefined |-> TRUE]

\* getTopRated, over the item list vs and the registry rs that getVideos() and
\* getRestaurants() return
getTopRated(vs, rs, limit) ==
  LET mapped == [i \in 1..Len(vs) |->
                   [video |-> vs[i], restaurant |-> lookup(rs, vs[i].restaurantSlug)]]
      kept   == SelectSeq(mapped, LAMBDA e : e.restaurant # [undefined |-> TRUE])
  IN  slice0(sortByLikes(kept, <<>>), limit)

\* ------------------------------------------- functions applied on their own

\* no process runs and a function is about to be applied to one of argSet
InitApplied(argSet) ==
  /\ diskVideos = Absent
  /\ diskRestaurants = Absent
  /\ diskOverrides = Absent
  /\ pc = "idle"
  /\ status = "none"
  /\ ops = 0
  /\ MemIdle
  /\ start = NoStart
  /\ called = {}
  /\ failed = {}
  /\ retry = {}
  /\ cleanOutput = FALSE
  /\ rerun = FALSE
  /\ fnArgs \in argSet
  /\ fnResult = NotApplied
  /\ capturedData = <<>>
  /\ scrapeStatus = "none"
  /\ invoked = "none"
  /\ pace = NoPace

\* the function named f is applied and gives the value v
Applied(f, v) ==
  /\ fnArgs.fn = f
  /\ ~fnResult.done
  /\ fnResult' = [done |-> TRUE, val |-> v]
  /\ UNCHANGED <<disk, pc, status, ops, mem, hist, fnArgs, scraper, invoked, pace>>

\* every text of at most n characters of the set A
Texts(A, n) == UNION {[1..k -> A] : k \in 0..n}

\* the longest text given to slugify
MaxText == 4

\* a capital, a letter, a digit, white space, a dash, and a character slugify drops
SlugChars == {"A", "z", "7", " ", "-", EmDash}

InitSlugify == InitApplied([fn : {"slugify"}, text : Texts(SlugChars, MaxText)])

ApplySlugify == Applied("slugify", slugify(fnArgs.text))

NextSlugify == ApplySlugify

SpecSlugify == InitSlugify /\ [][NextSlugify]_vars

\* n times the character c
Rep(c, n) == [i \in 1..n |-> c]

\* the longest run of letters that starts a caption given to videoSlug
MaxRun == 52

SlugCaptions ==
  {Rep("a", n) \o t : n \in 0..MaxRun, t \in {<<>>, <<" ", "b", "b">>, <<"-", " ", "b">>, <<" ", " ">>}}

InitVideoSlug ==
  InitApplied([fn : {"videoSlug"}, caption : SlugCaptions, videoId : {<<"7">>, <<"4", "2">>}])

ApplyVideoSlug == Applied("videoSlug", videoSlug(fnArgs))

NextVideoSlug == ApplyVideoSlug

SpecVideoSlug == InitVideoSlug /\ [][NextVideoSlug]_vars

\* the items of the lists given to the filters, with the fields they read
FilterItems ==
  { [videoId |-> "i1", city |-> <<"N", "Y">>,  cuisine |-> <<"N">>],
    [videoId |-> "i2", city |-> <<"n", "y">>,  cuisine |-> <<"N", "Y">>],
    [videoId |-> "i3", city |-> <<"N">>,   cuisine |-> <<"n", "y">>],
    [videoId |-> "i4", city |-> <<"N", "Y", "C">>, cuisine |-> <<>>],
    [videoId |-> "i5", city |-> <<>>,    cuisine |-> <<"N", "Y", "C">>] }

\* the longest item list given to the filters
MaxItems == 2

FilterQueries == {<<"N", "Y">>, <<"n", "y">>, <<"n", "Y">>, <<"N">>, <<"n">>, <<>>}

\* two texts are the same but for the case of their letters
sameButCase(a, b) ==
  /\ Len(a) = Len(b)
  /\ \A i \in 1..Len(a) :
       \/ a[i] = b[i]
       \/ \E k \in 1..26 : {a[i], b[i]} = {UpperSeq[k], LowerSeq[k]}

\* an item list and two queries that differ in letter case at most
FilterArgs ==
  {a \in [fn : {"getVideosByCity", "getVideosByCuisine"},
          videos : Texts(FilterItems, MaxItems),
          query : FilterQueries, query2 : FilterQueries] :
     sameButCase(a.query, a.query2)}

InitFilter == InitApplied(FilterArgs)

ApplyCity ==
  Applied("getVideosByCity",
          <<getVideosByCity(fnArgs.videos, fnArgs.query),
            getVideosByCity(fnArgs.videos, fnArgs.query2)>>)

ApplyCuisine ==
  Applied("getVideosByCuisine",
          <<getVideosByCuisine(fnArgs.videos, fnArgs.query),
            getVideosByCuisine(fnArgs.videos, fnArgs.query2)>>)

NextFilter == ApplyCity \/ ApplyCuisine

SpecFilter == InitFilter /\ [][NextFilter]_vars

\* lines 344-356 of main for one video: the name, and the slug and city the
\* video is given (its own when no name is found)
classify(video, table) ==
  LET nm == extractRestaurantName(video.caption, video.videoId, table)
  IN  IF Falsy(nm)
      THEN [name |-> nm, slug |-> video.restaurantSlug, city |-> video.city]
      ELSE [name |-> nm, slug |-> slugify(nm),
            city |-> IF ~Falsy(video.city) THEN video.city
                     ELSE extractCity(video.caption)]

BrightonBeach == <<"T", "a", "t", "i", "a", "n", "a", " ", "i", "n", " ", "B", "r", "i", "g", "h", "t", "o", "n", " ", "B", "e", "a", "c", "h", " ">> \o <<EmDash>> \o <<" ", "t", "h", "e", " ", "b", "e", "s", "t", " ", "r", "e", "s", "t", "a", "u", "r", "a", "n", "t">>

ClassifyCaptions == ExtractCaptions \cup {BrightonBeach}

InitClassify ==
  InitApplied([fn : {"classify"}, caption : ClassifyCaptions,
               videoId : ExtractIds, table : ExtractTables])

ApplyClassify ==
  Applied("classify",
          classify([videoId |-> fnArgs.videoId, caption |-> fnArgs.caption,
                    restaurantSlug |-> <<>>, city |-> <<>>], fnArgs.table))

NextClassify == ApplyClassify

SpecClassify == InitClassify /\ [][NextClassify]_vars

\* the videos of the lists given to getTopRated, with the fields it reads
RankedVideos ==
  { [videoId |-> "i1", restaurantSlug |-> <<"a">>, stats |-> [likes |-> 1]],
    [videoId |-> "i2", restaurantSlug |-> <<"b">>, stats |-> [likes |-> 9]],
    [videoId |-> "i3", restaurantSlug |-> <<"b">>, stats |-> [likes |-> 1]],
    [videoId |-> "i4", restaurantSlug |-> <<"g", "h", "o", "s", "t">>, stats |-> [likes |-> 5]] }

\* a registry: restaurant a has the better ratings, restaurant b the more liked video
RankedRestaurants ==
  (<<"a">> :> [name |-> <<"A">>, slug |-> <<"a">>,
           google |-> [rating |-> 5, reviewCount |-> 10, placeId |-> "place-a"],
           yelp |-> [rating |-> 5, reviewCount |-> 10, url |-> "https://yelp/a"]]) @@
  (<<"b">> :> [name |-> <<"B">>, slug |-> <<"b">>,
           google |-> [rating |-> 1, reviewCount |-> 10, placeId |-> "place-b"],
           yelp |-> [rating |-> 1, reviewCount |-> 10, url |-> "https://yelp/b"]])

\* the longest item list given to getTopRated
MaxRanked == 3

InitTopRated ==
  InitApplied([fn : {"getTopRated"}, videos : Texts(RankedVideos, MaxRanked),
               restaurants : {RankedRestaurants}, limit : {0, 1, 2, 10}])

ApplyTopRated ==
  Applied("getTopRated", getTopRated(fnArgs.videos, fnArgs.restaurants, fnArgs.limit))

NextTopRated == ApplyTopRated

SpecTopRated == InitTopRated /\ [][NextTopRated]_vars

\* ---------------------------------------------- the two patches on their own

\* the most snippets a stored restaurant starts with
MaxReviews == 2

\* the most successful lookups applied to one restaurant
MaxPatches == 2

\* snippets a restaurant of restaurants.json can hold: src/lib/data.ts tags a
\* review with the source 'google' or 'yelp'
StoredSnippets ==
  { [source |-> "google", author |-> "bob", rating |-> 3, text |-> "fine", date |-> "2023-05-05"],
    [source |-> "yelp", author |-> "cat", rating |-> 4, text |-> "tasty", date |-> "2023-06-06"],
    [source |-> "yelp", author |-> "dan", rating |-> 2, text |-> "slow", date |-> "2023-07-07"] }

\* a restaurant with snippets stored, not yet patched
StoredRestaurants ==
  { [shell(<<"T", "a", "t", "i", "a", "n", "a">>, <<"t", "a", "t", "i", "a", "n", "a">>, <<"N", "e", "w", " ", "Y", "o", "r", "k">>, <<"N", "Y">>, <<>>) EXCEPT !.reviews = rs] :
      rs \in UNION {[1..k -> StoredSnippets] : k \in 0..MaxReviews} }

InitPatch == InitApplied([fn : {"patch"}, restaurant : StoredRestaurants])

\* the restaurant as the patches so far have left it
patched == IF fnResult.done THEN fnResult.val.after ELSE fnArgs.restaurant

patchCount == IF fnResult.done THEN fnResult.val.n ELSE 0

\* lines 387-399 for a lookup that gave googleData
ApplyGoogle(googleData) ==
  /\ fnArgs.fn = "patch"
  /\ patchCount < MaxPatches
  /\ fnResult' = [done |-> TRUE,
                  val |-> [provider |-> "google", data |-> googleData,
                           before |-> patched,
                           after |-> patchGoogle(patched, googleData),
                           n |-> patchCount + 1]]
  /\ UNCHANGED <<disk, pc, status, ops, mem, hist, fnArgs, scraper, invoked, pace>>

\* lines 405-410 for a lookup that gave yelpData
ApplyYelp(yelpData) ==
  /\ fnArgs.fn = "patch"
  /\ patchCount < MaxPatches
  /\ fnResult' = [done |-> TRUE,
                  val |-> [provider |-> "yelp", data |-> yelpData,
                           before |-> patched,
                           after |-> patchYelp(patched, yelpData),
                           n |-> patchCount + 1]]
  /\ UNCHANGED <<disk, pc, status, ops, mem, hist, fnArgs, scraper, invoked, pace>>

NextPatch ==
  \/ \E d \in GoogleResults : ApplyGoogle(d)
  \/ \E d \in YelpResults : ApplyYelp(d)

SpecPatch == InitPatch /\ [][NextPatch]_vars

\* ------------------------------------------------ ingestion on its own

\* the longest manual-videos.json / list of captured items
MaxBatch == 2

\* v1 as the pipeline leaves it
enrichedVideo ==
  [CHOOSE v \in VideoPool : v.videoId = "v1" EXCEPT
     !.restaurantSlug = <<"t", "a", "t", "i", "a", "n", "a">>, !.city = <<"N", "e", "w", " ", "Y", "o", "r", "k">>]

\* videos.json before the ingestion: empty, or written by earlier ingestions
\* and runs of the pipeline
ExistingLists ==
  {<<>>, <<enrichedVideo>>}
    \cup {<<enrichedVideo, v>> : v \in {p \in VideoPool : p.videoId \in {"v2", "v3"}}}
    \cup {<<v>> : v \in {p \in VideoPool : p.videoId = "v2"} \cup {domVideo("v1")}}

\* the records of a batch, a record of a known or repeated id among them
Batches(pool) == UNION {[1..k -> pool] : k \in 0..MaxBatch}

\* --max=1 and the default
Caps == {1, MAX_VIDEOS}

InitIngest ==
  InitApplied(
    [fn : {"manual"}, existing : ExistingLists, items : Batches(VideoPool)]
    \cup [fn : {"scrape"}, existing : ExistingLists,
          items : Batches({p \in VideoPool : p.restaurantSlug = <<>>}),
          dom : DomLists, max : Caps])

ApplyManual == Applied("manual", addManual(fnArgs.existing, fnArgs.items))

ApplyScrape ==
  Applied("scrape", mergeScrape(fnArgs.existing, fnArgs.items, fnArgs.dom, fnArgs.max))

NextIngest == ApplyManual \/ ApplyScrape

SpecIngest == InitIngest /\ [][NextIngest]_vars

\* ------------------------------------------------------------ the claims

RunPcs == {"loop", "google", "yelp", "link", "save", "saveRestaurants"}

\* C1: a provider's rating that is non-zero when a run starts, and its review
\* count, are the same at every point of the run, whatever the provider
\* answers, also for a record that has a rating and no placeId / url.
C1_NoClobber ==
  pc \in RunPcs =>
    \A s \in DOMAIN existingRestaurants :
      /\ existingRestaurants[s].google.rating # 0 =>
           /\ updatedRestaurants[s].google.rating = existingRestaurants[s].google.rating
           /\ updatedRestaurants[s].google.reviewCount = existingRestaurants[s].google.reviewCount
      /\ existingRestaurants[s].yelp.rating # 0 =>
           /\ updatedRestaurants[s].yelp.rating = existingRestaurants[s].yelp.rating
           /\ updatedRestaurants[s].yelp.reviewCount = existingRestaurants[s].yelp.reviewCount

\* C2: an address that is non-empty, and a latitude or longitude that is
\* non-zero, when a run starts are the same at every point of the run, also
\* when a lookup succeeds in the run and returns another address.
C2_PatchOnly ==
  pc \in RunPcs =>
    \A s \in DOMAIN existingRestaurants :
      /\ existingRestaurants[s].address # "" =>
           updatedRestaurants[s].address = existingRestaurants[s].address
      /\ existingRestaurants[s].lat # 0 =>
           updatedRestaurants[s].lat = existingRestaurants[s].lat
      /\ existingRestaurants[s].lng # 0 =>
           updatedRestaurants[s].lng = existingRestaurants[s].lng

\* C3: a run that starts from the output of a completed run, with the same
\* override table, and in which no provider returns a result, ends its loop
\* with an item list and a registry equal to the documents it read.
C3_Idempotent ==
  (pc = "save" /\ rerun /\ enriched = 0) =>
    /\ updatedVideos = diskVideos.doc
    /\ updatedRestaurants = diskRestaurants.doc

\* the second run went through extraction and cross-link again for an item
C3_Witness ==
  /\ pc = "save"
  /\ rerun
  /\ enriched = 0
  /\ extracted > 0
  /\ DOMAIN updatedRestaurants # {}

\* C4: in the documents a completed run has written, every item with a
\* non-empty restaurantSlug names a key of the registry.
C4_NoOrphans ==
  cleanOutput =>
    \A i \in 1..Len(diskVideos.doc) :
      ~Falsy(diskVideos.doc[i].restaurantSlug) =>
        diskVideos.doc[i].restaurantSlug \in DOMAIN diskRestaurants.doc

\* C5: an exception raised while an item is processed is caught at that item,
\* so no run is ever ended by one.
C5_FailureIsolation == status # "exception"

\* whether the provider's adapter is enabled in the configuration
adapterEnabled(cfg, provider) ==
  /\ ~cfg.skipApi
  /\ IF provider = "google" THEN cfg.googleKey ELSE cfg.yelpKey

\* C6: a provider whose lookup for a restaurant gave no result in a saved run,
\* leaving the restaurant unenriched, has been asked again for that restaurant
\* by the end of the loop of every later run in which its adapter is enabled.
C6_RetriedNextRun ==
  pc = "save" =>
    \A p \in retry : adapterEnabled(config, p[2]) => p \in called

\* C7: at every point of a run, and after a run that did not complete, the
\* two documents on disk are both as the run found them or both as the run
\* leaves them.
C7_AtomicPersistence ==
  /\ pc \in RunPcs =>
       \/ diskVideos = start.videos /\ diskRestaurants = start.restaurants
       \/ diskVideos = Doc(updatedVideos) /\ diskRestaurants = Doc(updatedRestaurants)
  /\ (pc = "idle" /\ start.taken) =>
       diskVideos = start.videos /\ diskRestaurants = start.restaurants

\* one of the three documents was there and could not be parsed
startMalformed ==
  /\ start.taken
  /\ \/ start.videos.st = "malformed"
     \/ start.restaurants.st = "malformed"
     \/ start.overrides.st = "malformed"

\* C8: an invocation that finds a document unparseable has ended with a
\* non-zero status, has processed no item and has left the documents on disk
\* as it found them.
C8_MalformedIsFatal ==
  startMalformed =>
    /\ pc = "idle"
    /\ status \in {"parseError", "noVideos"}
    /\ extracted = 0
    /\ disk = <<start.videos, start.restaurants, start.overrides>>

\* an invocation found the item list readable and overrides.json unparseable
C8_Witness ==
  /\ start.taken
  /\ start.videos.st = "ok"
  /\ Len(start.videos.doc) > 0
  /\ start.overrides.st = "malformed"
  /\ status = "parseError"

extractionOnly(cfg) == cfg.skipApi \/ (~cfg.googleKey /\ ~cfg.yelpKey)

providerFields(r) == <<r.google, r.yelp, r.address, r.lat, r.lng, r.reviews>>

\* C9: in a run without credentials, or with --skip-api, no network request
\* is made, the run is never ended by an exception, no restaurant's rating
\* records, address, coordinates or snippets change (a new restaurant keeps
\* the shell's), and every item that is not on the fast path and has a name
\* is classified under a registry key.
C9_ExtractionOnly ==
  [][(pc \in RunPcs /\ extractionOnly(config)) =>
       /\ called = {}
       /\ enriched = 0
       /\ status' # "exception"
       /\ \A s \in DOMAIN updatedRestaurants :
            providerFields(updatedRestaurants[s]) =
              IF s \in DOMAIN existingRestaurants
              THEN providerFields(existingRestaurants[s])
              ELSE providerFields(shell(<<>>, s, <<>>, <<>>, <<>>))
       /\ \A i \in 1..Len(updatedVideos) :
            LET before == start.videos.doc[i]
                nm     == memo(nameTable, <<before.caption, before.videoId, overrides>>)
            IN  (~alreadyEnriched(before, existingRestaurants) /\ ~Falsy(nm)) =>
                  /\ updatedVideos[i].restaurantSlug = memo(slugTable, nm)
                  /\ updatedVideos[i].restaurantSlug \in DOMAIN updatedRestaurants
    ]_vars

\* C10, as claimed: for every item identifier with an entry in the override
\* table, extractRestaurantName returns the entry, whatever the caption.
C10_OverrideAlways ==
  (fnResult.done /\ fnArgs.videoId \in DOMAIN fnArgs.table) =>
    fnResult.val = fnArgs.table[fnArgs.videoId]

\* C10, amended: for every item identifier whose entry in the override table
\* is a non-empty name, extractRestaurantName returns the entry, whatever the
\* caption.
C10_OverridePrecedence ==
  (/\ fnResult.done
   /\ fnArgs.videoId \in DOMAIN fnArgs.table
   /\ fnArgs.table[fnArgs.videoId] # <<>>) =>
    fnResult.val = fnArgs.table[fnArgs.videoId]

\* the override was returned for a caption whose rules give another name
C10_Witness ==
  /\ fnResult.done
  /\ fnArgs.videoId \in DOMAIN fnArgs.table
  /\ fnArgs.table[fnArgs.videoId] # <<>>
  /\ captionName(fnArgs.caption) \notin {Null, fnArgs.table[fnArgs.videoId]}
  /\ fnResult.val = fnArgs.table[fnArgs.videoId]

\* the characters of a slug
SlugAlphabet == Lower \cup Digit \cup {"-"}

\* over [a-z0-9-], no dash first or last, no two dashes in a row
wellFormedSlug(s) ==
  /\ \A i \in 1..Len(s) : s[i] \in SlugAlphabet
  /\ s # <<>> => s[1] # "-" /\ s[Len(s)] # "-"
  /\ \A i \in 1..(Len(s) - 1) : ~(s[i] = "-" /\ s[i + 1] = "-")

\* C11: for every text, slugify gives a text over [a-z0-9-] with no dash at
\* either end and no two adjacent dashes, and gives the empty text for the
\* empty text.
C11_SlugWellFormed ==
  fnResult.done =>
    /\ wellFormedSlug(fnResult.val)
    /\ fnArgs.text = <<>> => fnResult.val = <<>>

\* a text that starts with a dash, holds white space or a dropped character,
\* and still has a slug
C11_Witness ==
  /\ fnResult.done
  /\ fnArgs.text # <<>>
  /\ fnArgs.text[1] = "-"
  /\ \E i \in 1..Len(fnArgs.text) : fnArgs.text[i] \in {" ", EmDash}
  /\ fnResult.val # <<>>

\* C12: a video's slug is a caption part, a dash and the videoId; the caption
\* part is a prefix of slugify(caption), at most 50 characters long, does not
\* end in a dash, and falls short of the first 50 characters of
\* slugify(caption) by at most the one dash removed.
C12_VideoSlug ==
  fnResult.done =>
    LET whole == slugify(fnArgs.caption)
        n     == Len(fnResult.val) - Len(fnArgs.videoId) - 1
        part  == SubSeq(fnResult.val, 1, n)
    IN  /\ n >= 0
        /\ fnResult.val = part \o <<"-">> \o fnArgs.videoId
        /\ n <= 50
        /\ part = SubSeq(whole, 1, n)
        /\ part # <<>> => part[n] # "-"
        /\ IF Len(whole) <= 50 THEN part = whole
           ELSE n = IF whole[50] = "-" THEN 49 ELSE 50

\* the cut at 50 characters fell on a dash
C12_Witness ==
  /\ fnResult.done
  /\ Len(slugify(fnArgs.caption)) > 50
  /\ slugify(fnArgs.caption)[50] = "-"
  /\ Len(fnResult.val) = 49 + 1 + Len(fnArgs.videoId)

\* the field a filter reads
filterField(v) == IF fnArgs.fn = "getVideosByCity" THEN v.city ELSE v.cuisine

\* C13: getVideosByCity, and getVideosByCuisine, give the same result for two
\* queries that differ in letter case only, and the result is the items whose
\* field is the query but for letter case, all of them, in the order of the
\* item list.
C13_FilterCorrect ==
  fnResult.done =>
    /\ fnResult.val[1] = fnResult.val[2]
    /\ fnResult.val[1] =
         SelectSeq(fnArgs.videos, LAMBDA v : sameButCase(filterField(v), fnArgs.query))

\* the queries differ in case, an item matches in another case than the
\* query's, and an item whose city only starts with the query is left out
C13_Witness ==
  /\ fnResult.done
  /\ fnArgs.fn = "getVideosByCity"
  /\ fnArgs.query # fnArgs.query2
  /\ \E i \in 1..Len(fnResult.val[1]) : fnResult.val[1][i].city # fnArgs.query
  /\ \E i \in 1..Len(fnArgs.videos) :
       /\ StartsWith(fnArgs.videos[i].city, fnArgs.query)
       /\ \A j \in 1..Len(fnResult.val[1]) : fnResult.val[1][j] # fnArgs.videos[i]

\* the scenario: the caption of C14 and no override for the video
brightonScenario ==
  /\ fnResult.done
  /\ fnArgs.caption = BrightonBeach
  /\ fnArgs.videoId \notin DOMAIN fnArgs.table

\* C14: for the caption "Tatiana in Brighton Beach - the best restaurant"
\* (with an em dash) and no override, the first pattern gives the name
\* "Tatiana", the slug is "tatiana" and the city is "New York".
C14_BrightonBeach ==
  brightonScenario =>
    /\ pattern1(Words(cleanCaption(fnArgs.caption))) = <<"T", "a", "t", "i", "a", "n", "a">>
    /\ fnResult.val.name = <<"T", "a", "t", "i", "a", "n", "a">>
    /\ fnResult.val.slug = <<"t", "a", "t", "i", "a", "n", "a">>
    /\ fnResult.val.city = <<"N", "e", "w", " ", "Y", "o", "r", "k">>

\* C15: during a run every restaurant the run created is under the key
\* slugify(name) with that key in its slug field, every restaurant the run
\* found is under its key with its slug field, and in restaurants.json the
\* slug field of every restaurant is its key.
C15_KeyIdentity ==
  /\ pc \in RunPcs =>
       /\ DOMAIN existingRestaurants \subseteq DOMAIN updatedRestaurants
       /\ \A s \in DOMAIN updatedRestaurants :
            IF s \in DOMAIN existingRestaurants
            THEN updatedRestaurants[s].slug = existingRestaurants[s].slug
            ELSE /\ updatedRestaurants[s].slug = s
                 /\ s = memo(slugTable, updatedRestaurants[s].name)
  /\ diskRestaurants.st = "ok" =>
       \A s \in DOMAIN diskRestaurants.doc : diskRestaurants.doc[s].slug = s

\* a run that found a restaurant has created another
C15_Witness ==
  /\ pc = "save"
  /\ existingRestaurants # <<>>
  /\ DOMAIN updatedRestaurants # DOMAIN existingRestaurants

\* a restaurant's combined Google and Yelp rating
combinedRating(r) == r.google.rating + r.yelp.rating

\* C16: getTopRated(limit) gives at most limit pairs, only of videos whose
\* restaurantSlug is a key of the registry, in the order of the restaurants'
\* combined Google and Yelp rating, highest first, pairs of equal rating in
\* the order of the item list.
C16_TopRatedByRating ==
  fnResult.done =>
    /\ Len(fnResult.val) <= fnArgs.limit
    /\ \A i \in 1..Len(fnResult.val) :
         fnResult.val[i].video.restaurantSlug \in DOMAIN fnArgs.restaurants
    /\ \A i, j \in 1..Len(fnResult.val) :
         i < j =>
           /\ combinedRating(fnResult.val[i].restaurant)
                >= combinedRating(fnResult.val[j].restaurant)
           /\ combinedRating(fnResult.val[i].restaurant)
                = combinedRating(fnResult.val[j].restaurant) =>
                \E p, q \in 1..Len(fnArgs.videos) :
                  /\ p <= q
                  /\ fnArgs.videos[p] = fnResult.val[i].video
                  /\ fnArgs.videos[q] = fnResult.val[j].video

\* C17: after a scrape that failed with videos captured, every captured
\* video is in videos.json.
C17_PartialSave ==
  (scrapeStatus = "error" /\ capturedData # <<>>) =>
    /\ diskVideos.st = "ok"
    /\ \A i \in 1..Len(capturedData) :
         \E j \in 1..Len(diskVideos.doc) :
           diskVideos.doc[j].videoId = capturedData[i].videoId

\* the video has a restaurantSlug that is a key of the registry read from
\* restaurants.json, and a city
resolved(video) ==
  /\ video.restaurantSlug # <<>>
  /\ video.restaurantSlug \in DOMAIN existingRestaurants
  /\ video.city # <<>>

\* the turn of videos[idx] emits it as it was read and touches nothing else
passedOver ==
  /\ pc' = "loop"
  /\ idx' = idx + 1
  /\ updatedVideos' = Append(updatedVideos, start.videos.doc[idx])
  /\ videos' = videos
  /\ updatedRestaurants' = updatedRestaurants
  /\ extracted' = extracted
  /\ enriched' = enriched
  /\ called' = called
  /\ invoked' = "none"

\* C18: the turn of an item that has a restaurantSlug of the persisted
\* registry and a city changes no field of the item, does not run the
\* extractor, invokes no provider and changes no restaurant.
C18_FastPath ==
  [][(pc = "loop" /\ idx <= Len(videos) /\ resolved(videos[idx])) =>
       (passedOver \/ pc' = "idle")]_vars

\* an item read with a restaurantSlug of the registry and a city has had its turn
C18_Witness ==
  /\ pc = "loop"
  /\ idx > 1
  /\ resolved(start.videos.doc[idx - 1])
  /\ updatedVideos[idx - 1] = start.videos.doc[idx - 1]

\* the extractor returns no name for the video
noName(video) ==
  Falsy(memo(nameTable, <<video.caption, video.videoId, overrides>>))

\* C19: the turn of an item that is not on the fast path and for which the
\* extractor returns no name emits the item with its restaurantSlug, city and
\* cuisine as they were, creates and modifies no restaurant and invokes no
\* provider; and the loop never goes back to an item.
C19_ExtractionMiss ==
  [][/\ (/\ pc = "loop"
         /\ idx <= Len(videos)
         /\ ~alreadyEnriched(videos[idx], existingRestaurants)
         /\ noName(videos[idx])) => (passedOver \/ pc' = "idle")
     /\ (pc \in RunPcs /\ pc' \in RunPcs) => idx' >= idx]_vars

\* an item read with a restaurantSlug and no name to extract has had its turn
C19_Witness ==
  /\ pc = "loop"
  /\ idx > 1
  /\ ~alreadyEnriched(start.videos.doc[idx - 1], existingRestaurants)
  /\ noName(start.videos.doc[idx - 1])
  /\ start.videos.doc[idx - 1].restaurantSlug # <<>>
  /\ updatedVideos[idx - 1] = start.videos.doc[idx - 1]

\* the restaurant of the item in hand has the provider's identifier and a
\* non-zero rating from it
hasProviderData(provider) ==
  /\ ownEntry
  /\ IF provider = "google"
     THEN /\ ~Blank(updatedRestaurants[slug].google.placeId)
          /\ updatedRestaurants[slug].google.rating # 0
     ELSE /\ ~Blank(updatedRestaurants[slug].yelp.url)
          /\ updatedRestaurants[slug].yelp.rating # 0

\* C20: a provider's adapter is invoked only for a restaurant that, at that
\* moment, lacks the provider's identifier or has the rating 0 from it.
C20_EnrichmentGate ==
  [][/\ (pc = "google" /\ invoked' = "google") => ~hasProviderData("google")
     /\ (pc = "yelp" /\ invoked' = "yelp") => ~hasProviderData("yelp")]_vars

\* the Google step has passed, without a call, over an item with a city whose
\* restaurant has a placeId and a non-zero Google rating
C20_Witness ==
  /\ pc = "yelp"
  /\ invoked = "none"
  /\ ~Falsy(city)
  /\ hasProviderData("google")

\* the snippets of the list tagged with the source / with another source
fromSource(reviews, src) == SelectSeq(reviews, LAMBDA r : r.source = src)
notFromSource(reviews, src) == SelectSeq(reviews, LAMBDA r : r.source # src)

\* the provider's new snippets: Yelp's result carries none
newSnippets == IF fnResult.val.provider = "google" THEN fnResult.val.data.reviews ELSE <<>>

\* the rating record of the provider that was not asked is as it was, and no
\* snippet of another source has been dropped since the restaurant was read
othersKept ==
  /\ fnResult.val.provider = "google" => fnResult.val.after.yelp = fnResult.val.before.yelp
  /\ fnResult.val.provider = "yelp" => fnResult.val.after.google = fnResult.val.before.google
  /\ notFromSource(fnResult.val.after.reviews, fnResult.val.provider)
       = notFromSource(fnResult.val.before.reviews, fnResult.val.provider)
  /\ fromSource(fnResult.val.after.reviews, "yelp")
       = fromSource(fnArgs.restaurant.reviews, "yelp")

\* C21, as claimed: after a successful lookup by either provider the snippet
\* list is that provider's new snippets followed by the stored snippets of
\* the other sources in their order, and the other provider's rating record
\* is unchanged.
C21_SnippetMergeEither ==
  fnResult.done =>
    /\ fnResult.val.after.reviews
         = newSnippets \o notFromSource(fnResult.val.before.reviews, fnResult.val.provider)
    /\ othersKept

\* C21: after a successful Google lookup the snippet list is Google's new
\* snippets followed by the stored snippets of other sources in their order;
\* after a successful Yelp lookup the snippet list is as it was; either way
\* no snippet of another source is dropped and the other provider's rating
\* record is unchanged.
C21_SnippetMerge ==
  fnResult.done =>
    /\ fnResult.val.provider = "google" =>
         fnResult.val.after.reviews
           = newSnippets \o notFromSource(fnResult.val.before.reviews, "google")
    /\ fnResult.val.provider = "yelp" =>
         fnResult.val.after.reviews = fnResult.val.before.reviews
    /\ othersKept

\* a Google result with snippets has been merged into a list that held a
\* Google snippet before a Yelp one
C21_Witness ==
  /\ fnResult.done
  /\ fnResult.val.provider = "google"
  /\ fnResult.val.data.reviews # <<>>
  /\ Len(fnResult.val.before.reviews) = 2
  /\ fnResult.val.before.reviews[1].source = "google"
  /\ fnResult.val.before.reviews[2].source = "yelp"
  /\ Len(fnResult.val.after.reviews) = 2

\* no identifier occurs twice in the videoIds of a restaurant of the registry
noDuplicateIds(registry) ==
  \A s \in DOMAIN registry :
    \A i, j \in 1..Len(registry[s].videoIds) :
      registry[s].videoIds[i] = registry[s].videoIds[j] => i = j

\* the video of videos.json went through extraction and cross-link in this run
processed(video) ==
  /\ ~alreadyEnriched(video, existingRestaurants)
  /\ ~noName(video)

\* the videoId is in the list of the restaurant the video names
linked(video, registry) ==
  /\ video.restaurantSlug \in DOMAIN registry
  /\ \E k \in 1..Len(registry[video.restaurantSlug].videoIds) :
       registry[video.restaurantSlug].videoIds[k] = video.videoId

\* C22: every item emitted after extraction and cross-link has its
\* identifier in the item-id list of the restaurant it names, and no item-id
\* list, in memory or on disk, ever holds an identifier twice, over any
\* number of runs.
C22_CrossLink ==
  /\ pc \in RunPcs =>
       /\ \A i \in 1..Len(updatedVideos) :
            processed(start.videos.doc[i]) => linked(updatedVideos[i], updatedRestaurants)
       /\ noDuplicateIds(updatedRestaurants)
  /\ diskRestaurants.st = "ok" => noDuplicateIds(diskRestaurants.doc)

\* a later run has gone again through the cross-link of an item whose
\* identifier the list read from restaurants.json already held
C22_Witness ==
  /\ pc = "loop"
  /\ idx > 1
  /\ processed(start.videos.doc[idx - 1])
  /\ linked(updatedVideos[idx - 1], existingRestaurants)
  /\ linked(updatedVideos[idx - 1], updatedRestaurants)

\* the fields of an item the pipeline does not own
sameItem(a, b) ==
  /\ a.videoId = b.videoId
  /\ a.caption = b.caption
  /\ a.createTime = b.createTime
  /\ a.thumbnailUrl = b.thumbnailUrl
  /\ a.stats = b.stats

\* C23: the items a run has emitted are the first items of the list it read,
\* one for one and in the same order, each with its identifier, caption,
\* creation timestamp, thumbnail and engagement counters as read; when the
\* loop is over the emitted list is as long as the list read, and it is the
\* list written to videos.json.
C23_StableList ==
  /\ pc \in RunPcs =>
       /\ Len(updatedVideos) <= Len(start.videos.doc)
       /\ \A i \in 1..Len(updatedVideos) : sameItem(updatedVideos[i], start.videos.doc[i])
  /\ pc \in {"loop", "google", "yelp", "link"} => Len(updatedVideos) = idx - 1
  /\ pc \in {"save", "saveRestaurants"} => Len(updatedVideos) = Len(start.videos.doc)
  /\ pc = "saveRestaurants" => diskVideos = Doc(updatedVideos)

\* the loop is over for a list with an item of the fast path followed by an
\* item that is not on it
C23_Witness ==
  /\ pc = "save"
  /\ Len(updatedVideos) = 2
  /\ alreadyEnriched(start.videos.doc[1], existingRestaurants)
  /\ ~alreadyEnriched(start.videos.doc[2], existingRestaurants)

\* C24: a fetch from a provider starts only when every earlier fetch of the
\* run, with or without a result, has been followed by the delay; and an
\* adapter call that is skipped locally or disabled is followed by no delay.
C24_RateLimited ==
  [][/\ (pc \in {"google", "yelp"} /\ pace'.fetched) => ~pace.undelayed
     /\ (pc \in {"google", "yelp"} /\ pc' # "idle" /\ ~pace'.fetched) =>
          pace'.undelayed = pace.undelayed]_vars

\* an earlier item of this run fetched from the provider for the restaurant
\* in hand, which now has the provider's identifier and a non-zero rating
storedByEarlierItem(provider) ==
  /\ <<slug, provider>> \in called
  /\ hasProviderData(provider)

\* C25: within one run, the items emitted after extraction that name the
\* same key share one registry entry whose item-id list holds the identifier
\* of each; and the turn of a later item does not invoke, nor fetch from, a
\* provider from which an earlier item of the run stored an identifier and a
\* non-zero rating for that key.
C25_LaterItemsObserve ==
  /\ [](pc \in RunPcs =>
          \A i, j \in 1..Len(updatedVideos) :
            (/\ i < j
             /\ processed(start.videos.doc[i])
             /\ processed(start.videos.doc[j])
             /\ updatedVideos[i].restaurantSlug = updatedVideos[j].restaurantSlug) =>
              /\ linked(updatedVideos[i], updatedRestaurants)
              /\ linked(updatedVideos[j], updatedRestaurants)
              /\ updatedRestaurants[updatedVideos[j].restaurantSlug].slug
                   = updatedVideos[i].restaurantSlug)
  /\ [][/\ (pc = "google" /\ pc' # "idle" /\ storedByEarlierItem("google")) =>
            (invoked' # "google" /\ called' = called /\ ~pace'.fetched)
        /\ (pc = "yelp" /\ pc' # "idle" /\ storedByEarlierItem("yelp")) =>
            (invoked' # "yelp" /\ called' = called /\ ~pace'.fetched)]_vars

\* the second of two items of one new key has passed the Google step without
\* a call, the first one's call having stored a placeId and a rating
C25_Witness ==
  /\ pc = "yelp"
  /\ idx = 2
  /\ invoked = "none"
  /\ updatedVideos[1].restaurantSlug = slug
  /\ processed(start.videos.doc[1])
  /\ processed(start.videos.doc[2])
  /\ storedByEarlierItem("google")
  /\ slug \notin DOMAIN existingRestaurants

\* the ids of the videos of a list
idsOf(list) == {list[i].videoId : i \in 1..Len(list)}

\* the ids the batch supplies
batchIds ==
  idsOf(fnArgs.items) \cup (IF fnArgs.fn = "scrape" THEN {id \in DomIds : \E i \in 1..Len(fnArgs.dom) : fnArgs.dom[i] = id} ELSE {})

\* every video of videos.json is where it was, as it was, and no id is twice
\* in the list
keptInPlace ==
  /\ Len(fnResult.val) >= Len(fnArgs.existing)
  /\ \A i \in 1..Len(fnArgs.existing) : fnResult.val[i] = fnArgs.existing[i]
  /\ \A i, j \in 1..Len(fnResult.val) :
       fnResult.val[i].videoId = fnResult.val[j].videoId => i = j
  /\ idsOf(fnResult.val) \subseteq idsOf(fnArgs.existing) \cup batchIds

unclassified(video) ==
  /\ video.restaurantSlug = <<>>
  /\ video.city = <<>>
  /\ video.cuisine = <<>>

\* the videos appended by the ingestion
appended == SubSeq(fnResult.val, Len(fnArgs.existing) + 1, Len(fnResult.val))

\* C26, as claimed: after an ingestion of either mode every video of
\* videos.json is where it was, with its classification, no id is twice in
\* the list, and every unknown id of the batch has been appended with an
\* empty classification.
C26_AppendOnlyEmpty ==
  fnResult.done =>
    /\ keptInPlace
    /\ batchIds \subseteq idsOf(fnResult.val)
    /\ \A i \in 1..Len(appended) : unclassified(appended[i])

\* C26: after an ingestion of either mode every video of videos.json is
\* where it was, with its classification, and no id is twice in the list;
\* manual mode appends every unknown id with the record as it is written in
\* manual-videos.json; a scrape appends unknown ids with an empty
\* classification, MAX_VIDEOS of them at most, and all of them when they are
\* fewer than MAX_VIDEOS.
C26_AppendOnly ==
  fnResult.done =>
    /\ keptInPlace
    /\ fnArgs.fn = "manual" =>
         /\ batchIds \subseteq idsOf(fnResult.val)
         /\ \A i \in 1..Len(appended) :
              \E k \in 1..Len(fnArgs.items) : appended[i] = fnArgs.items[k]
    /\ fnArgs.fn = "scrape" =>
         /\ \A i \in 1..Len(appended) : unclassified(appended[i])
         /\ Len(appended) <= fnArgs.max
         /\ Len(appended) < fnArgs.max => batchIds \subseteq idsOf(fnResult.val)

\* a scrape has found a classified video, a known id and an unknown one
C26_Witness ==
  /\ fnResult.done
  /\ fnArgs.fn = "scrape"
  /\ Len(fnArgs.existing) = 1
  /\ ~unclassified(fnArgs.existing[1])
  /\ Len(fnArgs.items) = 2
  /\ fnArgs.items[1].videoId = fnArgs.existing[1].videoId
  /\ Len(appended) = 1

\* C27: in the documents a completed run has written, the identifier of an
\* item occurs in the item-id list of no restaurant but the one the item's
\* restaurantSlug names, whatever runs and edits of overrides.json came
\* before.
C27_SingleOwner ==
  cleanOutput =>
    \A i \in 1..Len(diskVideos.doc) :
      \A s \in DOMAIN diskRestaurants.doc :
        (\E k \in 1..Len(diskRestaurants.doc[s].videoIds) :
           diskRestaurants.doc[s].videoIds[k] = diskVideos.doc[i].videoId)
          => s = diskVideos.doc[i].restaurantSlug

\* the fields of a restaurant that say which restaurant it is
identity(restaurant) ==
  <<restaurant.name, restaurant.slug, restaurant.city, restaurant.state, restaurant.cuisine>>

\* every restaurant of the first registry is in the second, with its identity
keepsAll(before, after) ==
  \A s \in DOMAIN before :
    /\ s \in DOMAIN after
    /\ identity(after[s]) = identity(before[s])

\* C28: at every point of a run the registry in memory holds every
\* restaurant that restaurants.json held when the run started, with its
\* name, slug, city, state and cuisine as they were; and no step of a run
\* removes a restaurant or changes one of these fields, also for a
\* restaurant the run has created.
C28_RegistryMonotone ==
  /\ [](pc \in RunPcs =>
          /\ start.restaurants.st = "ok" => existingRestaurants = start.restaurants.doc
          /\ keepsAll(existingRestaurants, updatedRestaurants))
  /\ [][(pc \in RunPcs /\ pc' \in RunPcs) =>
           keepsAll(updatedRestaurants, updatedRestaurants')]_vars

\* an item with another cuisine than the restaurant's has been cross-linked
\* to a restaurant that restaurants.json held
C28_Witness ==
  /\ pc = "loop"
  /\ idx > 1
  /\ processed(start.videos.doc[idx - 1])
  /\ slug \in DOMAIN existingRestaurants
  /\ updatedVideos[idx - 1].restaurantSlug = slug
  /\ updatedVideos[idx - 1].cuisine # existingRestaurants[slug].cuisine

\* C29: an item for which the extractor returned a name has a non-empty
\* restaurantSlug from step 3 on, an item read with a non-empty
\* restaurantSlug is never emitted with an empty one, and the registry, in
\* memory and on disk, has no restaurant under the empty key.
C29_UsableKey ==
  /\ pc \in {"google", "yelp", "link"} => videos[idx].restaurantSlug # <<>>
  /\ pc \in RunPcs =>
       /\ <<>> \notin DOMAIN updatedRestaurants
       /\ \A i \in 1..Len(updatedVideos) :
            (processed(start.videos.doc[i]) \/ start.videos.doc[i].restaurantSlug # <<>>)
              => updatedVideos[i].restaurantSlug # <<>>
  /\ diskRestaurants.st = "ok" => <<>> \notin DOMAIN diskRestaurants.doc

\* C30: when the loop of a run is over, every item whose identifier has an
\* entry in the override table the run read has the slug of the override
\* value as its restaurantSlug, and the registry has an entry under that
\* slug, however the item was classified before the run.
C30_OverrideEffective ==
  pc = "save" =>
    \A i \in 1..Len(updatedVideos) :
      updatedVideos[i].videoId \in DOMAIN overrides =>
        /\ updatedVideos[i].restaurantSlug
             = memo(slugTable, overrides[updatedVideos[i].videoId])
        /\ updatedVideos[i].restaurantSlug \in DOMAIN updatedRestaurants

====
